---- MODULE Spec2Model ----
(***************************************************************************)
(* Model of the AWS IoT MQTT connection configuration builder              *)
(* (Aws::Iot::MqttClientConnectionConfigBuilder), the configuration it     *)
(* builds and the username composer it uses.                               *)
(*                                                                         *)
(* Strings that the code inspects character by character (the username,    *)
(* the authorizer parameters, the SDK name and version) are sequences of   *)
(* one-character strings.  Strings that are only stored and handed on      *)
(* (endpoint, password, proxy descriptors) are TLA+ strings.               *)
(* An Optional<T> is the empty sequence (no value) or a one-element        *)
(* sequence (the value).                                                   *)
(***************************************************************************)
EXTENDS Integers, Sequences, FiniteSets, TLC

VARIABLES
    alpnSupported,  \* platform capability TlsContextOptions::IsAlpnSupported()
    builder,        \* the MqttClientConnectionConfigBuilder object
    config,         \* Optional: the MqttClientConnectionConfig returned by the last Build
    call,           \* history: the last operation, its inputs and the builder before it
    ctorError,      \* history: the m_lastError the constructor left in the builder
    portAsked,      \* history: Optional, the argument of the last WithPortOverride
    authorizerAfter,\* history: WithCustomAuthorizer was called after the last WithPortOverride
    nOps,           \* number of builder operations performed so far
    twin,           \* comparison harness: Optional, a second builder constructed like the first
    twinConfig,     \* comparison harness: Optional, the configuration the twin's Build returned
    twinPhase,      \* comparison harness: stage ("off", "same", "diverged", "built") and
                    \* whether the TLS options accepted the twin's WithCustomAuthorizer
    cur,            \* composer harness: the username composed so far
    lastCompose,    \* composer harness: the last composer call and its result
    nCompose,       \* composer harness: number of composer calls so far
    client,         \* the Aws::Iot::MqttClient object
    connections,    \* the connections NewConnection has returned, in order
    lastNew,        \* history: the last NewConnection call, its inputs and its outcome
    nNew,           \* number of NewConnection calls so far
    invocations,    \* the calls of the interceptor so far: request and completion continuation
    signOps,        \* the signer's operations: what SignRequest was given, and whether it is done
    delivered,      \* the calls of completion continuations so far, in order
    events,         \* history: what happened around the interceptor, in order
    wsObject,       \* factory harness: Optional, a WebsocketConfig object held by the caller
    made            \* factory harness: the calls of its CreateSigningConfigCb so far

vars == <<alpnSupported, builder, config, call, ctorError, portAsked, authorizerAfter, nOps,
          twin, twinConfig, twinPhase, cur, lastCompose, nCompose,
          client, connections, lastNew, nNew, invocations, signOps, delivered, events,
          wsObject, made>>
twinVars == <<twin, twinConfig, twinPhase>>
composeVars == <<cur, lastCompose, nCompose>>
clientVars == <<client, connections, lastNew, nNew>>
signerVars == <<invocations, signOps, delivered, events>>
factoryVars == <<wsObject, made>>

----------------------------------------------------------------------------
(* Bounds *)

MaxOps == 3
MaxCompose == 2
MaxNew == 2
MaxInvocations == 2
MaxFactoryCalls == 2

----------------------------------------------------------------------------
(* Program constants *)

AWS_ERROR_INVALID_STATE == 38
AWS_ERROR_OOM == 1
AWS_IO_FILE_VALIDATION_FAILURE == 1038
AWS_IO_TLS_CTX_ERROR == 1173
DefaultConnectTimeoutMs == 3000
AlpnPort == 443
MqttPort == 8883

----------------------------------------------------------------------------
(* Strings *)

EmptyString == <<>>
QuestionMark == <<"?">>
Ampersand == <<"&">>
CustomAuthorizerNameKey ==
    <<"x", "-", "a", "m", "z", "-", "c", "u", "s", "t", "o", "m", "a", "u", "t",
      "h", "o", "r", "i", "z", "e", "r", "-", "n", "a", "m", "e", "=">>
CustomAuthorizerSignatureKey ==
    <<"x", "-", "a", "m", "z", "-", "c", "u", "s", "t", "o", "m", "a", "u", "t",
      "h", "o", "r", "i", "z", "e", "r", "-", "s", "i", "g", "n", "a", "t", "u",
      "r", "e", "=">>
SdkKey == <<"S", "D", "K", "=">>
VersionKey == <<"&", "V", "e", "r", "s", "i", "o", "n", "=">>
DefaultSdkName == <<"C", "P", "P", "v", "2">>
DefaultSdkVersion == <<"v", "0", ".", "1", "8", ".", "8">>
AlpnMqttCa == <<"x-amzn-mqtt-ca">>
AlpnMqtt == <<"mqtt">>

npos == -1

\* std::string::find(sub, from): the first position >= from (0-based) at which
\* sub occurs in s, npos when there is none; scanned left to right.
RECURSIVE FindFrom(_, _, _)
FindFrom(s, sub, from) ==
    IF from + Len(sub) > Len(s) THEN npos
    ELSE IF SubSeq(s, from + 1, from + Len(sub)) = sub THEN from
    ELSE FindFrom(s, sub, from + 1)

Find(s, sub) == FindFrom(s, sub, 0)

\* std::string::find_first_of(chars): the first position (0-based) of a
\* character of s that is one of the characters of chars, npos when none.
RECURSIVE FindFirstOfFrom(_, _, _)
FindFirstOfFrom(s, chars, from) ==
    IF from >= Len(s) THEN npos
    ELSE IF \E j \in 1..Len(chars) : chars[j] = s[from + 1] THEN from
    ELSE FindFirstOfFrom(s, chars, from + 1)

FindFirstOf(s, chars) == FindFirstOfFrom(s, chars, 0)

----------------------------------------------------------------------------
(* Optional<T> *)

nullopt == <<>>
Some(v) == <<v>>
has_value(o) == o # <<>>
value(o) == o[1]

----------------------------------------------------------------------------
(* The TLS option set (Crt::Io::TlsContextOptions) and the TLS context     *)
(* (Crt::Io::TlsContext), as the builder uses them.  Whether the TLS layer *)
(* accepts a request is an input of each operation.                        *)

IsAlpnSupported == alpnSupported

\* A default-constructed (uninitialized) option set.
TlsContextOptionsInvalid(err) ==
    [m_isInit |-> FALSE, alpnList |-> <<>>, trustStore |-> nullopt, lastError |-> err]

\* InitClientWithMtls(certPath, pkeyPath): an initialized option set, or an
\* uninitialized one carrying the error when the material is rejected.
InitClientWithMtls(materialOk) ==
    IF materialOk
    THEN [m_isInit |-> TRUE, alpnList |-> <<>>, trustStore |-> nullopt, lastError |-> 0]
    ELSE TlsContextOptionsInvalid(AWS_IO_FILE_VALIDATION_FAILURE)

\* InitDefaultClient(): no client certificate.
InitDefaultClient(ok) ==
    IF ok
    THEN [m_isInit |-> TRUE, alpnList |-> <<>>, trustStore |-> nullopt, lastError |-> 0]
    ELSE TlsContextOptionsInvalid(AWS_ERROR_OOM)

\* SetAlpnList(list): replaces the list when accepted, records an error and
\* leaves the list alone when rejected.
SetAlpnList(opts, list, accepted) ==
    IF accepted THEN [opts EXCEPT !.alpnList = list]
    ELSE [opts EXCEPT !.lastError = AWS_ERROR_OOM]

\* OverrideDefaultTrustStore(ca)
OverrideDefaultTrustStore(opts, ca, accepted) ==
    IF accepted THEN [opts EXCEPT !.trustStore = Some(ca)]
    ELSE [opts EXCEPT !.lastError = AWS_IO_FILE_VALIDATION_FAILURE]

\* TlsContext(options, CLIENT): the realized context, or an invalid context
\* carrying the initialization error.
InvalidTlsContext(err) ==
    [valid |-> FALSE, alpnList |-> <<>>, trustStore |-> nullopt, initializationError |-> err]

TlsContext(opts, ctxOk) ==
    IF opts.m_isInit /\ ctxOk
    THEN [valid |-> TRUE, alpnList |-> opts.alpnList, trustStore |-> opts.trustStore,
          initializationError |-> 0]
    ELSE InvalidTlsContext(AWS_IO_TLS_CTX_ERROR)

----------------------------------------------------------------------------
(* WebsocketConfig *)

ServiceName == "iotdevicegateway"

DefaultCredentialsProvider == "defaultChain"

\* The convenience constructors: CreateSigningConfigCb captures copies of the
\* credentials provider, the signing region and the service name.
WebsocketConfig(signingRegion, proxyOptions) ==
    [SigningRegion |-> signingRegion, ServiceName |-> ServiceName,
     CredentialsProvider |-> DefaultCredentialsProvider,
     CreateSigningConfigCb |-> [credsProviderRef |-> DefaultCredentialsProvider,
                                signingRegionCopy |-> signingRegion,
                                serviceNameCopy |-> ServiceName],
     ProxyOptions |-> proxyOptions]

\* A call of CreateSigningConfigCb: a new signing configuration.
CreateSigningConfig(cb) ==
    [Region |-> cb.signingRegionCopy, Service |-> cb.serviceNameCopy,
     SigningAlgorithm |-> "SigV4", SignatureType |-> "HttpRequestViaQueryParams",
     OmitSessionToken |-> TRUE, CredentialsProvider |-> cb.credsProviderRef]

----------------------------------------------------------------------------
(* MqttClientConnectionConfig *)

SocketOptionsDefault == [connectTimeoutMs |-> 0, keepAlive |-> FALSE]

\* (mutant) the error code is not stored.
CreateInvalid_DropsError(lastError) ==
    [m_endpoint |-> "", m_port |-> 0, m_context |-> InvalidTlsContext(0),
     m_socketOptions |-> SocketOptionsDefault, m_webSocketInterceptor |-> nullopt,
     m_username |-> EmptyString, m_password |-> "", m_proxyOptions |-> nullopt,
     m_lastError |-> 0]

\* The constructor used by CreateInvalid: port 0, everything else default.
CreateInvalid(lastError) ==
    [m_endpoint |-> "", m_port |-> 0, m_context |-> InvalidTlsContext(0),
     m_socketOptions |-> SocketOptionsDefault, m_webSocketInterceptor |-> nullopt,
     m_username |-> EmptyString, m_password |-> "", m_proxyOptions |-> nullopt,
     m_lastError |-> lastError]

\* (mutant) the constructor without proxy options is used.
MqttClientConnectionConfig_NoProxy(endpoint, port, socketOptions, tlsContext, interceptor, px) ==
    [m_endpoint |-> endpoint, m_port |-> port, m_context |-> tlsContext,
     m_socketOptions |-> socketOptions, m_webSocketInterceptor |-> interceptor,
     m_username |-> EmptyString, m_password |-> "", m_proxyOptions |-> nullopt,
     m_lastError |-> 0]

\* The constructors taking a TLS context (with or without an interceptor).
MqttClientConnectionConfig(endpoint, port, socketOptions, tlsContext, interceptor, proxyOptions) ==
    [m_endpoint |-> endpoint, m_port |-> port, m_context |-> tlsContext,
     m_socketOptions |-> socketOptions, m_webSocketInterceptor |-> interceptor,
     m_username |-> EmptyString, m_password |-> "", m_proxyOptions |-> proxyOptions,
     m_lastError |-> 0]

\* explicit operator bool() of the configuration
ConfigValid(c) == c.m_context.valid

----------------------------------------------------------------------------
(* MqttClientConnectionConfigBuilder: constructors *)

\* The member initializers of the class and the common constructor.
BuilderCommon ==
    [m_endpoint |-> "", m_portOverride |-> 0,
     m_socketOptions |-> [connectTimeoutMs |-> DefaultConnectTimeoutMs, keepAlive |-> FALSE],
     m_contextOptions |-> TlsContextOptionsInvalid(0),
     m_websocketConfig |-> nullopt, m_proxyOptions |-> nullopt,
     m_enableMetricsCollection |-> TRUE,
     m_sdkName |-> DefaultSdkName, m_sdkVersion |-> DefaultSdkVersion,
     m_username |-> EmptyString, m_password |-> "",
     m_isUsingCustomAuthorizer |-> FALSE, m_lastError |-> 0]

\* MqttClientConnectionConfigBuilder(): starts in error; m_portOverride is
\* not initialized by this constructor, so it holds an arbitrary value.
BuilderDefault(garbagePort) ==
    [BuilderCommon EXCEPT !.m_portOverride = garbagePort,
                          !.m_socketOptions = SocketOptionsDefault,
                          !.m_lastError = AWS_ERROR_INVALID_STATE]

\* MqttClientConnectionConfigBuilder(certPath, pkeyPath, allocator)
BuilderMtls(materialOk) ==
    LET opts == InitClientWithMtls(materialOk)
    IN  IF ~opts.m_isInit
        THEN [BuilderCommon EXCEPT !.m_contextOptions = opts, !.m_lastError = opts.lastError]
        ELSE [BuilderCommon EXCEPT !.m_contextOptions = opts]

\* MqttClientConnectionConfigBuilder(const WebsocketConfig &, allocator)
BuilderWebsocket(wsConfig, ok) ==
    LET opts == InitDefaultClient(ok)
    IN  IF ~opts.m_isInit
        THEN [BuilderCommon EXCEPT !.m_contextOptions = opts, !.m_lastError = opts.lastError]
        ELSE [BuilderCommon EXCEPT !.m_contextOptions = opts,
                                   !.m_websocketConfig = Some(wsConfig)]

----------------------------------------------------------------------------
(* MqttClientConnectionConfigBuilder: fluent setters *)

\* (mutant) a builder in error can be repaired by a fluent call.
WithEndpoint_ClearsError(b, endpoint) ==
    [b EXCEPT !.m_endpoint = endpoint, !.m_lastError = 0]

WithEndpoint(b, endpoint) == [b EXCEPT !.m_endpoint = endpoint]

WithMetricsCollection(b, enabled) == [b EXCEPT !.m_enableMetricsCollection = enabled]

WithSdkName(b, sdkName) == [b EXCEPT !.m_sdkName = sdkName]

WithSdkVersion(b, sdkVersion) == [b EXCEPT !.m_sdkVersion = sdkVersion]

\* (mutant) an override already in place is kept.
WithPortOverride_KeepsFirst(b, port) ==
    IF b.m_portOverride # 0 THEN b ELSE [b EXCEPT !.m_portOverride = port]

WithPortOverride(b, port) == [b EXCEPT !.m_portOverride = port]

\* (mutant) the trust store is overridden in TLS options that were never initialized.
WithCertificateAuthority_NoInitCheck(b, ca, accepted) ==
    LET opts == OverrideDefaultTrustStore(b.m_contextOptions, ca, accepted)
    IN  IF ~accepted
        THEN [b EXCEPT !.m_contextOptions = opts, !.m_lastError = opts.lastError]
        ELSE [b EXCEPT !.m_contextOptions = opts]

WithCertificateAuthority(b, ca, accepted) ==
    IF b.m_contextOptions.m_isInit
    THEN LET opts == OverrideDefaultTrustStore(b.m_contextOptions, ca, accepted)
         IN  IF ~accepted
             THEN [b EXCEPT !.m_contextOptions = opts, !.m_lastError = opts.lastError]
             ELSE [b EXCEPT !.m_contextOptions = opts]
    ELSE b

WithTcpKeepAlive(b) == [b EXCEPT !.m_socketOptions.keepAlive = TRUE]

WithHttpProxyOptions(b, proxyOptions) == [b EXCEPT !.m_proxyOptions = Some(proxyOptions)]

WithUsername(b, username) == [b EXCEPT !.m_username = username]

\* (mutant) setting a password resets the builder's error.
WithPassword_ClearsError(b, password) ==
    [b EXCEPT !.m_password = password, !.m_lastError = 0]

WithPassword(b, password) == [b EXCEPT !.m_password = password]

\* (mutant) the key is prepended without looking at the value.
AddToUsernameParameter_AlwaysPrefixes(currentUsername, parameterValue, parameterPreText) ==
    LET return_string ==
            IF Find(currentUsername, QuestionMark) # npos
            THEN currentUsername \o Ampersand
            ELSE currentUsername \o QuestionMark
    IN  return_string \o parameterPreText \o parameterValue

\* AddToUsernameParameter(currentUsername, parameterValue, parameterPreText)
AddToUsernameParameter(currentUsername, parameterValue, parameterPreText) ==
    LET return_string ==
            IF Find(currentUsername, QuestionMark) # npos
            THEN currentUsername \o Ampersand
            ELSE currentUsername \o QuestionMark
    IN  IF Find(parameterValue, parameterPreText) # npos
        THEN return_string \o parameterValue
        ELSE return_string \o parameterPreText \o parameterValue

\* (mutant) a username set earlier is forgotten.
CustomAuthorizerUsername_DropsPrevious(b, username, authorizerName, authorizerSignature) ==
    LET s1 == IF authorizerName # EmptyString
              THEN AddToUsernameParameter(username, authorizerName, CustomAuthorizerNameKey)
              ELSE username
    IN  IF authorizerSignature # EmptyString
        THEN AddToUsernameParameter(s1, authorizerSignature, CustomAuthorizerSignatureKey)
        ELSE s1

\* The username WithCustomAuthorizer composes.
CustomAuthorizerUsername(b, username, authorizerName, authorizerSignature) ==
    LET s0 == IF username = EmptyString
              THEN (IF b.m_username # EmptyString THEN b.m_username ELSE EmptyString)
              ELSE username
        s1 == IF authorizerName # EmptyString
              THEN AddToUsernameParameter(s0, authorizerName, CustomAuthorizerNameKey)
              ELSE s0
    IN  IF authorizerSignature # EmptyString
        THEN AddToUsernameParameter(s1, authorizerSignature, CustomAuthorizerSignatureKey)
        ELSE s1

\* The port WithCustomAuthorizer leaves in m_portOverride.
CustomAuthorizerPort(b) == AlpnPort

WithCustomAuthorizer(b, username, authorizerName, authorizerSignature, password, accepted) ==
    IF ~IsAlpnSupported
    THEN [b EXCEPT !.m_lastError = AWS_ERROR_INVALID_STATE]
    ELSE LET opts == SetAlpnList(b.m_contextOptions, AlpnMqtt, accepted)
         IN  [b EXCEPT !.m_isUsingCustomAuthorizer = TRUE,
                       !.m_username = CustomAuthorizerUsername(b, username, authorizerName,
                                                               authorizerSignature),
                       !.m_password = password,
                       !.m_contextOptions = opts,
                       !.m_lastError = IF ~accepted THEN opts.lastError ELSE @,
                       !.m_portOverride = CustomAuthorizerPort(b)]

----------------------------------------------------------------------------
(* MqttClientConnectionConfigBuilder::Build *)

\* (mutant) the default port ignores the WebSocket setup.
ResolvePort_IgnoresWebsocket(b) ==
    IF b.m_portOverride = 0
    THEN (IF IsAlpnSupported THEN AlpnPort ELSE MqttPort)
    ELSE b.m_portOverride

\* The port Build resolves.
ResolvePort(b) ==
    IF b.m_portOverride = 0
    THEN (IF has_value(b.m_websocketConfig) \/ IsAlpnSupported THEN AlpnPort ELSE MqttPort)
    ELSE b.m_portOverride

\* (mutant) the username is never inspected.
DetectCustomAuthorizer_Never(b) == b.m_isUsingCustomAuthorizer

\* The value of m_isUsingCustomAuthorizer after Build's check of the username.
DetectCustomAuthorizer(b) ==
    IF ~b.m_isUsingCustomAuthorizer
    THEN (IF b.m_username # EmptyString
          THEN (IF FindFirstOf(b.m_username, CustomAuthorizerNameKey) # npos
                   \/ FindFirstOf(b.m_username, CustomAuthorizerSignatureKey) # npos
                THEN TRUE
                ELSE b.m_isUsingCustomAuthorizer)
          ELSE b.m_isUsingCustomAuthorizer)
    ELSE b.m_isUsingCustomAuthorizer

\* (mutant) the WebSocket setup is not looked at.
UsesDirectMtlsAlpn_IgnoresWebsocket(b, port, usingCustomAuthorizer) ==
    /\ port = AlpnPort
    /\ IsAlpnSupported
    /\ ~usingCustomAuthorizer

\* The condition under which Build selects the direct-mTLS ALPN protocol.
UsesDirectMtlsAlpn(b, port, usingCustomAuthorizer) ==
    /\ port = AlpnPort
    /\ ~has_value(b.m_websocketConfig)
    /\ IsAlpnSupported
    /\ ~usingCustomAuthorizer

\* (mutant) a custom authorizer gets its protocol token on port 443 only.
AlpnRequest_AuthorizerOn443Only(b, port, usingCustomAuthorizer) ==
    IF UsesDirectMtlsAlpn(b, port, usingCustomAuthorizer) THEN Some(AlpnMqttCa)
    ELSE IF usingCustomAuthorizer /\ port = AlpnPort THEN Some(AlpnMqtt)
    ELSE nullopt

\* (mutant) the direct-mTLS case asks for the plain protocol token.
AlpnRequest_PlainForDirect(b, port, usingCustomAuthorizer) ==
    IF UsesDirectMtlsAlpn(b, port, usingCustomAuthorizer) THEN Some(AlpnMqtt)
    ELSE IF usingCustomAuthorizer THEN Some(AlpnMqtt)
    ELSE nullopt

\* The ALPN list Build asks the TLS options to take, nullopt when it asks for none.
\* (The two SetAlpnList calls of Build have contradictory guards.)
AlpnRequest(b, port, usingCustomAuthorizer) ==
    IF UsesDirectMtlsAlpn(b, port, usingCustomAuthorizer) THEN Some(AlpnMqttCa)
    ELSE IF usingCustomAuthorizer THEN Some(AlpnMqtt)
    ELSE nullopt

\* The warning Build logs for a custom authorizer on a port other than 443.
WarnsUnsupportedPort(port, usingCustomAuthorizer) ==
    usingCustomAuthorizer /\ port # AlpnPort

\* (mutant) the metrics parameters always start a new query component.
MetricsUsername_AlwaysQuestionMark(b) ==
    IF b.m_enableMetricsCollection
    THEN b.m_username \o QuestionMark
         \o SdkKey \o b.m_sdkName \o VersionKey \o b.m_sdkVersion
    ELSE b.m_username

\* The username of the built configuration.
MetricsUsername(b) ==
    IF b.m_enableMetricsCollection
    THEN (IF Find(b.m_username, QuestionMark) # npos
          THEN b.m_username \o Ampersand
          ELSE b.m_username \o QuestionMark)
         \o SdkKey \o b.m_sdkName \o VersionKey \o b.m_sdkVersion
    ELSE b.m_username

\* (mutant) the WebsocketConfig's proxy options win when both are set.
ResolveProxyOptions_WebsocketFirst(b) ==
    IF has_value(value(b.m_websocketConfig).ProxyOptions)
    THEN value(b.m_websocketConfig).ProxyOptions
    ELSE b.m_proxyOptions

\* The proxy options of a configuration built on the WebSocket path.
ResolveProxyOptions(b) ==
    LET useWebsocketProxyOptions ==
            has_value(value(b.m_websocketConfig).ProxyOptions) /\ ~has_value(b.m_proxyOptions)
    IN  IF useWebsocketProxyOptions
        THEN value(b.m_websocketConfig).ProxyOptions
        ELSE b.m_proxyOptions

\* The signing interceptor Build binds to a copy of the WebsocketConfig.
SignerTransform(websocketConfig) == [websocketConfig |-> websocketConfig]

\* (mutant) the requested protocol is added to the list already there.
ApplyAlpnRequest_Appends(opts, request, accepted) ==
    IF has_value(request)
    THEN (IF accepted THEN [opts EXCEPT !.alpnList = @ \o value(request)]
          ELSE SetAlpnList(opts, value(request), accepted))
    ELSE opts

\* The TLS options after Build's ALPN step: one SetAlpnList call when a list
\* is asked for, none otherwise.
ApplyAlpnRequest(opts, request, accepted) ==
    IF has_value(request) THEN SetAlpnList(opts, value(request), accepted) ELSE opts

\* (mutant) Build stores the username with the metrics suffix in the builder.
BuilderAfterBuild_KeepsMetrics(b, usingCustomAuthorizer, opts) ==
    [b EXCEPT !.m_isUsingCustomAuthorizer = usingCustomAuthorizer,
              !.m_contextOptions = opts,
              !.m_username = MetricsUsername(b)]

\* What Build writes into the builder: the custom-authorizer flag and the TLS
\* options; m_username and the other fields are only read.
BuilderAfterBuild(b, usingCustomAuthorizer, opts) ==
    [b EXCEPT !.m_isUsingCustomAuthorizer = usingCustomAuthorizer,
              !.m_contextOptions = opts]

\* Build(): the builder after the call, the returned configuration and
\* whether the unsupported-port warning was logged.  tlsAccepts says whether
\* the TLS options accept the ALPN list, ctxOk whether the TLS context can be
\* realized from the options.
Build(b, tlsAccepts, ctxOk) ==
    IF b.m_lastError # 0
    THEN [builder |-> b, config |-> CreateInvalid(b.m_lastError), warned |-> FALSE]
    ELSE
    LET port == ResolvePort(b)
        usingCustomAuthorizer == DetectCustomAuthorizer(b)
        request == AlpnRequest(b, port, usingCustomAuthorizer)
        opts == ApplyAlpnRequest(b.m_contextOptions, request, tlsAccepts)
        b1 == BuilderAfterBuild(b, usingCustomAuthorizer, opts)
        warned == WarnsUnsupportedPort(port, usingCustomAuthorizer)
        tlsContext == TlsContext(opts, ctxOk)
    IN  IF has_value(request) /\ ~tlsAccepts
        THEN [builder |-> b1, config |-> CreateInvalid(opts.lastError), warned |-> warned]
        ELSE IF ~tlsContext.valid
        THEN [builder |-> b1, config |-> CreateInvalid(tlsContext.initializationError),
              warned |-> warned]
        ELSE IF ~has_value(b.m_websocketConfig)
        THEN [builder |-> b1,
              config |-> [MqttClientConnectionConfig(b.m_endpoint, port, b.m_socketOptions,
                              tlsContext, nullopt, b.m_proxyOptions)
                          EXCEPT !.m_username = MetricsUsername(b),
                                 !.m_password = b.m_password],
              warned |-> warned]
        ELSE [builder |-> b1,
              config |-> [MqttClientConnectionConfig(b.m_endpoint, port, b.m_socketOptions,
                              tlsContext, Some(SignerTransform(value(b.m_websocketConfig))),
                              ResolveProxyOptions(b))
                          EXCEPT !.m_username = MetricsUsername(b),
                                 !.m_password = b.m_password],
              warned |-> warned]

----------------------------------------------------------------------------
(* Inputs *)

Bob == <<"b", "o", "b">>
Foo == <<"f", "o", "o">>
Sig == <<"s", "g">>
Usernames ==
    { EmptyString,
      <<"b", "d", "f">>,
      Bob,
      <<"?", "a", "=", "1">>,
      CustomAuthorizerNameKey \o Foo }
\* (username, authorizerName, authorizerSignature) of WithCustomAuthorizer: each
\* argument empty and not, the name with and without its key.
AuthorizerCalls ==
    { <<EmptyString, EmptyString, EmptyString>>,
      <<EmptyString, Foo, Sig>>,
      <<EmptyString, CustomAuthorizerNameKey \o Foo, EmptyString>>,
      <<(<<"b", "d", "f">>), Foo, EmptyString>>,
      <<(<<"b", "d", "f">>), CustomAuthorizerNameKey \o Foo, Sig>>,
      <<(<<"b", "d", "f">>), EmptyString, Sig>> }
\* The calls made against TLS options that reject the ALPN list.
RejectedAuthorizerCalls ==
    { <<EmptyString, Foo, Sig>>,
      <<(<<"b", "d", "f">>), CustomAuthorizerNameKey \o Foo, Sig>> }
Passwords == { "pw" }
Endpoints == { "a.iot.example" }
PortInputs == { 0, AlpnPort, MqttPort }
GarbagePorts == { 0, MqttPort }
ProxyInputs == { "builderProxy" }
WebsocketProxyInputs == { nullopt, Some("websocketProxy") }
SdkNames == { <<"X">> }
SdkVersions == { <<"9">> }
SigningRegions == { "us-east-1" }

----------------------------------------------------------------------------
(* Aws::Crt::Mqtt::MqttClient and MqttConnection, as Aws::Iot::MqttClient   *)
(* uses them                                                               *)

AWS_ERROR_MQTT_CONNECTION_INVALID == 5150
AWS_ERROR_MQTT_LOGIN_REJECTED == 5151

\* The underlying client: usable or not, with its own last error.
CrtMqttClient(ok) == [valid |-> ok, lastError |-> IF ok THEN 0 ELSE AWS_ERROR_OOM]

\* m_client.NewConnection(hostName, port, socketOptions, tlsContext, useWebsocket):
\* no connection when the allocation fails, else a connection object that is
\* valid or carries an error.
CrtNewConnection(c, hostName, port, socketOptions, tlsContext, useWebsocket, allocOk, ok) ==
    IF ~allocOk
    THEN [client |-> [c EXCEPT !.lastError = AWS_ERROR_OOM], connection |-> nullopt]
    ELSE [client |-> c,
          connection |->
              Some([valid |-> ok,
                    lastError |-> IF ok THEN 0 ELSE AWS_ERROR_MQTT_CONNECTION_INVALID,
                    hostName |-> hostName, port |-> port, socketOptions |-> socketOptions,
                    tlsContext |-> tlsContext, useWebsocket |-> useWebsocket,
                    login |-> nullopt, WebsocketInterceptor |-> nullopt,
                    proxyOptions |-> nullopt])]

\* connection->SetLogin(username, password)
SetLogin(conn, username, password, ok) ==
    IF ok THEN [conn EXCEPT !.login = Some([username |-> username, password |-> password])]
    ELSE [conn EXCEPT !.lastError = AWS_ERROR_MQTT_LOGIN_REJECTED]

\* connection->SetHttpProxyOptions(proxyOptions)
SetHttpProxyOptions(conn, proxyOptions) == [conn EXCEPT !.proxyOptions = Some(proxyOptions)]

----------------------------------------------------------------------------
(* Aws::Iot::MqttClient *)

\* The constructors.
MqttClient(ok) ==
    LET c == CrtMqttClient(ok)
    IN  [m_client |-> c, m_lastError |-> IF ~c.valid THEN c.lastError ELSE 0]

\* MqttClient::LastError()
MqttClientLastError(cl) == cl.m_client.lastError

\* (mutant) the connection is never asked to use WebSocket.
UseWebsocket_Never(cfg) == FALSE

\* bool useWebsocket = config.m_webSocketInterceptor.operator bool()
UseWebsocket(cfg) == has_value(cfg.m_webSocketInterceptor)

\* (mutant) a password alone does not lead to a login.
ApplyConfig_LoginForUsernameOnly(conn, cfg, loginOk) ==
    LET useWebsocket == UseWebsocket(cfg)
        needsLogin == cfg.m_username # EmptyString
        c1 == IF needsLogin
              THEN SetLogin(conn, cfg.m_username, cfg.m_password, loginOk)
              ELSE conn
        c2 == IF useWebsocket
              THEN [c1 EXCEPT !.WebsocketInterceptor = cfg.m_webSocketInterceptor]
              ELSE c1
        c3 == IF has_value(cfg.m_proxyOptions)
              THEN SetHttpProxyOptions(c2, value(cfg.m_proxyOptions))
              ELSE c2
    IN  IF needsLogin /\ ~loginOk
        THEN [ok |-> FALSE, connection |-> c1]
        ELSE [ok |-> TRUE, connection |-> c3]

\* (mutant) the interceptor and the proxy options are applied before the login.
ApplyConfig_LoginLast(conn, cfg, loginOk) ==
    LET useWebsocket == has_value(cfg.m_webSocketInterceptor)
        c1 == IF useWebsocket
              THEN [conn EXCEPT !.WebsocketInterceptor = cfg.m_webSocketInterceptor]
              ELSE conn
        c2 == IF has_value(cfg.m_proxyOptions)
              THEN SetHttpProxyOptions(c1, value(cfg.m_proxyOptions))
              ELSE c1
        needsLogin == cfg.m_username # EmptyString \/ cfg.m_password # ""
    IN  IF needsLogin
        THEN [ok |-> loginOk, connection |-> SetLogin(c2, cfg.m_username, cfg.m_password, loginOk)]
        ELSE [ok |-> TRUE, connection |-> c2]

\* NewConnection once it holds a valid connection: login, then interceptor,
\* then proxy options; ok is FALSE when SetLogin failed.
ApplyConfig(conn, cfg, loginOk) ==
    LET useWebsocket == UseWebsocket(cfg)
        needsLogin == cfg.m_username # EmptyString \/ cfg.m_password # ""
        c1 == IF needsLogin
              THEN SetLogin(conn, cfg.m_username, cfg.m_password, loginOk)
              ELSE conn
        c2 == IF useWebsocket
              THEN [c1 EXCEPT !.WebsocketInterceptor = cfg.m_webSocketInterceptor]
              ELSE c1
        c3 == IF has_value(cfg.m_proxyOptions)
              THEN SetHttpProxyOptions(c2, value(cfg.m_proxyOptions))
              ELSE c2
    IN  IF needsLogin /\ ~loginOk
        THEN [ok |-> FALSE, connection |-> c1]
        ELSE [ok |-> TRUE, connection |-> c3]

\* (mutant) a successful NewConnection takes the TLS context out of the configuration.
ConfigAfterNewConnection_MovesContext(cfg, succeeded) ==
    IF succeeded THEN [cfg EXCEPT !.m_context = InvalidTlsContext(0)] ELSE cfg

\* The configuration after NewConnection: it is passed by const reference.
ConfigAfterNewConnection(cfg, succeeded) == cfg

\* MqttClient::NewConnection(config): the client and the configuration after
\* the call, the handle returned (if any) and the connection object the
\* underlying client allocated (if any), as it was when the call returned.
NewConnection(cl, cfg, allocOk, connValid, loginOk) ==
    IF ~ConfigValid(cfg)
    THEN [client |-> [cl EXCEPT !.m_lastError = cfg.m_lastError],
          config |-> ConfigAfterNewConnection(cfg, FALSE),
          result |-> nullopt, allocated |-> nullopt]
    ELSE
        LET useWebsocket == UseWebsocket(cfg)
            r == CrtNewConnection(cl.m_client, cfg.m_endpoint, cfg.m_port, cfg.m_socketOptions,
                                  cfg.m_context, useWebsocket, allocOk, connValid)
        IN  IF ~has_value(r.connection)
            THEN [client |-> [m_client |-> r.client, m_lastError |-> r.client.lastError],
                  config |-> ConfigAfterNewConnection(cfg, FALSE),
                  result |-> nullopt, allocated |-> nullopt]
            ELSE IF ~value(r.connection).valid
            THEN [client |-> [m_client |-> r.client,
                              m_lastError |-> value(r.connection).lastError],
                  config |-> ConfigAfterNewConnection(cfg, FALSE),
                  result |-> nullopt, allocated |-> r.connection]
            ELSE
                LET a == ApplyConfig(value(r.connection), cfg, loginOk)
                IN  IF ~a.ok
                    THEN [client |-> [m_client |-> r.client,
                                      m_lastError |-> a.connection.lastError],
                          config |-> ConfigAfterNewConnection(cfg, FALSE),
                          result |-> nullopt, allocated |-> Some(a.connection)]
                    ELSE [client |-> [m_client |-> r.client, m_lastError |-> cl.m_lastError],
                          config |-> ConfigAfterNewConnection(cfg, TRUE),
                          result |-> Some(a.connection), allocated |-> Some(a.connection)]

NoNewConnection ==
    [called |-> FALSE, config |-> CreateInvalid(0), before |-> MqttClient(TRUE),
     allocOk |-> TRUE, connValid |-> TRUE, loginOk |-> TRUE,
     result |-> nullopt, allocated |-> nullopt]

ClientIdle ==
    /\ client = MqttClient(TRUE)
    /\ connections = <<>>
    /\ lastNew = NoNewConnection
    /\ nNew = 0

----------------------------------------------------------------------------
(* The signing interceptor built by Build (signerTransform) *)

\* (mutant) every completion closure holds the continuation of the first invocation.
InvokeInterceptor_FirstContinuation(interceptor, req, onComplete) ==
    LET signingComplete == [onComplete |-> [continuation |-> 1]]
        signerConfig == CreateSigningConfig(interceptor.websocketConfig.CreateSigningConfigCb)
    IN  << [req |-> req, signerConfig |-> signerConfig, callback |-> signingComplete] >>

\* (mutant) the interceptor signs the request twice.
InvokeInterceptor_SignsTwice(interceptor, req, onComplete) ==
    LET signingComplete == [onComplete |-> onComplete]
        signerConfig == CreateSigningConfig(interceptor.websocketConfig.CreateSigningConfigCb)
        op == [req |-> req, signerConfig |-> signerConfig, callback |-> signingComplete]
    IN  <<op, op>>

\* A call of the interceptor: the SignRequest calls it makes on
\* websocketConfig.Signer, each with the request, a signing configuration
\* fresh from the factory and the completion closure holding onComplete.
InvokeInterceptor(interceptor, req, onComplete) ==
    LET signingComplete == [onComplete |-> onComplete]
        signerConfig == CreateSigningConfig(interceptor.websocketConfig.CreateSigningConfigCb)
    IN  << [req |-> req, signerConfig |-> signerConfig, callback |-> signingComplete] >>

\* (mutant) the continuation is called twice.
SigningComplete_CallsTwice(closure, req1, errorCode) ==
    << [onComplete |-> closure.onComplete, req |-> req1, errorCode |-> errorCode],
       [onComplete |-> closure.onComplete, req |-> req1, errorCode |-> errorCode] >>

\* (mutant) the signer's error code is not passed on.
SigningComplete_DropsError(closure, req1, errorCode) ==
    << [onComplete |-> closure.onComplete, req |-> req1, errorCode |-> 0] >>

\* A call of the completion closure by the signer: the calls of onComplete
\* it makes.
SigningComplete(closure, req1, errorCode) ==
    << [onComplete |-> closure.onComplete, req |-> req1, errorCode |-> errorCode] >>

SignerIdle ==
    /\ invocations = <<>>
    /\ signOps = <<>>
    /\ delivered = <<>>
    /\ events = <<>>

----------------------------------------------------------------------------
(* WebsocketConfig: its public fields can be assigned after construction *)

\* (mutant) the factory sees the region through the object, not through a copy.
AssignSigningRegion_Rebinds(ws, region) ==
    [ws EXCEPT !.SigningRegion = region, !.CreateSigningConfigCb.signingRegionCopy = region]

AssignSigningRegion(ws, region) == [ws EXCEPT !.SigningRegion = region]

AssignServiceName(ws, service) == [ws EXCEPT !.ServiceName = service]

AssignCredentialsProvider(ws, provider) == [ws EXCEPT !.CredentialsProvider = provider]

FactoryIdle ==
    /\ wsObject = nullopt
    /\ made = <<>>

----------------------------------------------------------------------------
(* The builder as a state machine: one action per public operation *)

NoCall == [op |-> "constructor", args |-> <<>>, pre |-> BuilderCommon, tlsAccepts |-> TRUE,
           ctxOk |-> TRUE, warned |-> FALSE]

Constructed ==
    {BuilderDefault(g) : g \in GarbagePorts}
    \cup {BuilderMtls(ok) : ok \in BOOLEAN}
    \cup {BuilderWebsocket(WebsocketConfig(r, px), ok) :
            r \in SigningRegions, px \in WebsocketProxyInputs, ok \in BOOLEAN}

TwinOff ==
    /\ twin = nullopt
    /\ twinConfig = nullopt
    /\ twinPhase = [stage |-> "off", accepted |-> TRUE]

ComposeIdle ==
    /\ cur = EmptyString
    /\ lastCompose = nullopt
    /\ nCompose = 0

Init ==
    /\ alpnSupported \in BOOLEAN
    /\ builder \in Constructed
    /\ config = nullopt
    /\ call = NoCall
    /\ ctorError = builder.m_lastError
    /\ portAsked = nullopt
    /\ authorizerAfter = FALSE
    /\ nOps = 0
    /\ TwinOff
    /\ ComposeIdle
    /\ ClientIdle
    /\ SignerIdle
    /\ FactoryIdle

\* A fluent call that cannot fail: the builder becomes b.
Fluent(name, b) ==
    /\ nOps < MaxOps
    /\ call' = [op |-> name, args |-> <<>>, pre |-> builder, tlsAccepts |-> TRUE, ctxOk |-> TRUE,
                warned |-> FALSE]
    /\ builder' = b
    /\ nOps' = nOps + 1
    /\ UNCHANGED <<alpnSupported, ctorError, config>>
    /\ UNCHANGED twinVars
    /\ UNCHANGED <<composeVars, clientVars, signerVars, factoryVars>>

DoWithEndpoint ==
    \E e \in Endpoints :
        /\ Fluent("WithEndpoint", WithEndpoint(builder, e))
        /\ UNCHANGED <<portAsked, authorizerAfter>>

DoWithMetricsCollection ==
    \E enabled \in BOOLEAN :
        /\ Fluent("WithMetricsCollection", WithMetricsCollection(builder, enabled))
        /\ UNCHANGED <<portAsked, authorizerAfter>>

DoWithSdkName ==
    \E n \in SdkNames :
        /\ Fluent("WithSdkName", WithSdkName(builder, n))
        /\ UNCHANGED <<portAsked, authorizerAfter>>

DoWithSdkVersion ==
    \E v \in SdkVersions :
        /\ Fluent("WithSdkVersion", WithSdkVersion(builder, v))
        /\ UNCHANGED <<portAsked, authorizerAfter>>

DoWithPortOverride ==
    \E p \in PortInputs :
        /\ Fluent("WithPortOverride", WithPortOverride(builder, p))
        /\ portAsked' = Some(p)
        /\ authorizerAfter' = FALSE

DoWithTcpKeepAlive ==
    /\ Fluent("WithTcpKeepAlive", WithTcpKeepAlive(builder))
    /\ UNCHANGED <<portAsked, authorizerAfter>>

DoWithHttpProxyOptions ==
    \E px \in ProxyInputs :
        /\ Fluent("WithHttpProxyOptions", WithHttpProxyOptions(builder, px))
        /\ UNCHANGED <<portAsked, authorizerAfter>>

DoWithUsername ==
    \E u \in Usernames :
        /\ Fluent("WithUsername", WithUsername(builder, u))
        /\ UNCHANGED <<portAsked, authorizerAfter>>

DoWithPassword ==
    \E pw \in Passwords :
        /\ Fluent("WithPassword", WithPassword(builder, pw))
        /\ UNCHANGED <<portAsked, authorizerAfter>>

DoWithCertificateAuthority ==
    \E accepted \in BOOLEAN :
        /\ nOps < MaxOps
        /\ call' = [op |-> "WithCertificateAuthority", args |-> <<>>, pre |-> builder,
                    tlsAccepts |-> accepted, ctxOk |-> TRUE, warned |-> FALSE]
        /\ builder' = WithCertificateAuthority(builder, "ca.pem", accepted)
        /\ nOps' = nOps + 1
        /\ UNCHANGED <<alpnSupported, ctorError, config, portAsked, authorizerAfter>>
        /\ UNCHANGED twinVars
        /\ UNCHANGED <<composeVars, clientVars, signerVars, factoryVars>>

DoWithCustomAuthorizer ==
    \E a \in AuthorizerCalls, pw \in Passwords, accepted \in BOOLEAN :
      LET u == a[1]
          n == a[2]
          sg == a[3]
      IN
        /\ nOps < MaxOps
        \* SetAlpnList is reached, and has an outcome, only with ALPN support
        /\ alpnSupported \/ accepted
        /\ accepted \/ a \in RejectedAuthorizerCalls
        /\ call' = [op |-> "WithCustomAuthorizer", args |-> <<u, n, sg, pw>>, pre |-> builder,
                    tlsAccepts |-> accepted, ctxOk |-> TRUE, warned |-> FALSE]
        /\ builder' = WithCustomAuthorizer(builder, u, n, sg, pw, accepted)
        /\ authorizerAfter' = TRUE
        /\ nOps' = nOps + 1
        /\ UNCHANGED <<alpnSupported, ctorError, config, portAsked>>
        /\ UNCHANGED twinVars
        /\ UNCHANGED <<composeVars, clientVars, signerVars, factoryVars>>

DoBuild ==
    \E tlsAccepts \in BOOLEAN, ctxOk \in BOOLEAN :
        LET r == Build(builder, tlsAccepts, ctxOk)
        IN  /\ nOps < MaxOps
            \* the TLS layer is reached only without a sticky error, and the
            \* context is realized only after the ALPN list was accepted
            /\ builder.m_lastError # 0 => tlsAccepts
            /\ ~tlsAccepts => ctxOk
            /\ call' = [op |-> "Build", args |-> <<>>, pre |-> builder, tlsAccepts |-> tlsAccepts,
                        ctxOk |-> ctxOk, warned |-> r.warned]
            /\ builder' = r.builder
            /\ config' = Some(r.config)
            /\ nOps' = nOps + 1
            /\ UNCHANGED <<alpnSupported, ctorError, portAsked, authorizerAfter>>
            /\ UNCHANGED twinVars
        /\ UNCHANGED <<composeVars, clientVars, signerVars, factoryVars>>

Next ==
    \/ DoWithEndpoint
    \/ DoWithMetricsCollection
    \/ DoWithSdkName
    \/ DoWithSdkVersion
    \/ DoWithPortOverride
    \/ DoWithTcpKeepAlive
    \/ DoWithHttpProxyOptions
    \/ DoWithUsername
    \/ DoWithPassword
    \/ DoWithCertificateAuthority
    \/ DoWithCustomAuthorizer
    \/ DoBuild

Spec == Init /\ [][Next]_vars

----------------------------------------------------------------------------
(* The username composer on its own: AddToUsernameParameter applied        *)
(* repeatedly to the username composed so far.                             *)

NameKey == <<"n", "a", "m", "e", "=">>
Bar == <<"b", "a", "r">>
ComposeCurrents == { EmptyString, <<"?", "a", "=", "1">>, <<"b", "d", "f">> }
ComposeValues == { Bar, NameKey \o Bar, Foo, CustomAuthorizerNameKey \o Foo }
ComposePrefixes == { NameKey, CustomAuthorizerNameKey }

InitCompose ==
    /\ alpnSupported = TRUE
    /\ builder = BuilderMtls(TRUE)
    /\ config = nullopt
    /\ call = NoCall
    /\ ctorError = builder.m_lastError
    /\ portAsked = nullopt
    /\ authorizerAfter = FALSE
    /\ nOps = 0
    /\ TwinOff
    /\ ClientIdle
    /\ SignerIdle
    /\ FactoryIdle
    /\ cur \in ComposeCurrents
    /\ lastCompose = nullopt
    /\ nCompose = 0

DoCompose ==
    \E parameterValue \in ComposeValues, parameterPreText \in ComposePrefixes :
        LET result == AddToUsernameParameter(cur, parameterValue, parameterPreText)
        IN  /\ nCompose < MaxCompose
            /\ lastCompose' = Some([currentUsername |-> cur,
                                    parameterValue |-> parameterValue,
                                    parameterPreText |-> parameterPreText,
                                    result |-> result])
            /\ cur' = result
            /\ nCompose' = nCompose + 1
            /\ UNCHANGED <<alpnSupported, ctorError, builder, config, call, portAsked,
                           authorizerAfter, nOps>>
            /\ UNCHANGED <<twinVars, clientVars, signerVars, factoryVars>>

NextCompose == DoCompose

SpecCompose == InitCompose /\ [][NextCompose]_vars

----------------------------------------------------------------------------
(* Two builders side by side: constructed alike and given the same fluent  *)
(* calls, except that one gets its custom authorizer through WithUsername  *)
(* and the other through WithCustomAuthorizer; then both are built against *)
(* the same TLS layer.                                                     *)

MarkedUsernames ==
    { CustomAuthorizerNameKey \o Foo, QuestionMark \o CustomAuthorizerNameKey \o Foo }

InitTwin ==
    /\ alpnSupported \in BOOLEAN
    /\ builder \in Constructed
    /\ config = nullopt
    /\ call = NoCall
    /\ ctorError = builder.m_lastError
    /\ portAsked = nullopt
    /\ authorizerAfter = FALSE
    /\ nOps = 0
    /\ twin = Some(builder)
    /\ twinConfig = nullopt
    /\ twinPhase = [stage |-> "same", accepted |-> TRUE]
    /\ ComposeIdle
    /\ ClientIdle
    /\ SignerIdle
    /\ FactoryIdle

\* The same infallible fluent call on both builders.
TwinFluent(name, b, t) ==
    /\ nOps < MaxOps
    /\ twinPhase.stage \in {"same", "diverged"}
    /\ call' = [op |-> name, args |-> <<>>, pre |-> builder, tlsAccepts |-> TRUE, ctxOk |-> TRUE,
                warned |-> FALSE]
    /\ builder' = b
    /\ twin' = Some(t)
    /\ nOps' = nOps + 1
    /\ UNCHANGED <<alpnSupported, ctorError, config, portAsked, authorizerAfter,
                   twinConfig, twinPhase>>
    /\ UNCHANGED <<composeVars, clientVars, signerVars, factoryVars>>

TwinWithPortOverride ==
    \E p \in PortInputs :
        TwinFluent("WithPortOverride", WithPortOverride(builder, p),
                   WithPortOverride(value(twin), p))

TwinWithHttpProxyOptions ==
    \E px \in ProxyInputs :
        TwinFluent("WithHttpProxyOptions", WithHttpProxyOptions(builder, px),
                   WithHttpProxyOptions(value(twin), px))

TwinWithPassword ==
    \E pw \in Passwords :
        TwinFluent("WithPassword", WithPassword(builder, pw), WithPassword(value(twin), pw))

TwinDiverge ==
    \E u \in MarkedUsernames, accepted \in BOOLEAN :
        /\ nOps < MaxOps
        /\ twinPhase.stage = "same"
        /\ call' = [op |-> "Diverge", args |-> <<>>, pre |-> builder, tlsAccepts |-> accepted,
                    ctxOk |-> TRUE, warned |-> FALSE]
        /\ builder' = WithUsername(builder, u)
        /\ twin' = Some(WithCustomAuthorizer(value(twin), EmptyString, Foo, EmptyString,
                                             builder.m_password, accepted))
        /\ twinPhase' = [stage |-> "diverged", accepted |-> accepted]
        /\ nOps' = nOps + 1
        /\ UNCHANGED <<alpnSupported, ctorError, config, portAsked, authorizerAfter, twinConfig>>
        /\ UNCHANGED <<composeVars, clientVars, signerVars, factoryVars>>

TwinBuild ==
    \E tlsAccepts \in BOOLEAN, ctxOk \in BOOLEAN :
        LET r == Build(builder, tlsAccepts, ctxOk)
            t == Build(value(twin), tlsAccepts, ctxOk)
        IN  /\ twinPhase.stage = "diverged"
            /\ call' = [op |-> "Build", args |-> <<>>, pre |-> builder, tlsAccepts |-> tlsAccepts,
                        ctxOk |-> ctxOk, warned |-> r.warned]
            /\ builder' = r.builder
            /\ config' = Some(r.config)
            /\ twin' = Some(t.builder)
            /\ twinConfig' = Some(t.config)
            /\ twinPhase' = [twinPhase EXCEPT !.stage = "built"]
            /\ UNCHANGED <<alpnSupported, ctorError, portAsked, authorizerAfter, nOps>>
            /\ UNCHANGED <<composeVars, clientVars, signerVars, factoryVars>>

NextTwin ==
    \/ TwinWithPortOverride
    \/ TwinWithHttpProxyOptions
    \/ TwinWithPassword
    \/ TwinDiverge
    \/ TwinBuild

SpecTwin == InitTwin /\ [][NextTwin]_vars

----------------------------------------------------------------------------
(* A builder that is built more than once, next to a fresh builder: the    *)
(* fresh one is constructed alike and gets the same fluent calls, but is   *)
(* never built; at each Build of the first, the configuration that Build   *)
(* on the fresh one would return against the same TLS layer is noted.      *)

InitRebuild ==
    /\ alpnSupported \in BOOLEAN
    /\ builder \in Constructed
    /\ config = nullopt
    /\ call = NoCall
    /\ ctorError = builder.m_lastError
    /\ portAsked = nullopt
    /\ authorizerAfter = FALSE
    /\ nOps = 0
    /\ twin = Some(builder)
    /\ twinConfig = nullopt
    /\ twinPhase = [stage |-> "fresh", accepted |-> TRUE]
    /\ ComposeIdle
    /\ ClientIdle
    /\ SignerIdle
    /\ FactoryIdle

\* The same infallible fluent call on both builders.
RebuildFluent(name, b, t) ==
    /\ nOps < MaxOps
    /\ twinPhase.stage = "fresh"
    /\ call' = [op |-> name, args |-> <<>>, pre |-> builder, tlsAccepts |-> TRUE, ctxOk |-> TRUE,
                warned |-> FALSE]
    /\ builder' = b
    /\ twin' = Some(t)
    /\ nOps' = nOps + 1
    /\ UNCHANGED <<alpnSupported, ctorError, config, portAsked, authorizerAfter,
                   twinConfig, twinPhase>>
    /\ UNCHANGED <<composeVars, clientVars, signerVars, factoryVars>>

RebuildWithUsername ==
    \E u \in Usernames :
        RebuildFluent("WithUsername", WithUsername(builder, u), WithUsername(value(twin), u))

RebuildWithPortOverride ==
    \E p \in PortInputs :
        RebuildFluent("WithPortOverride", WithPortOverride(builder, p),
                      WithPortOverride(value(twin), p))

RebuildWithHttpProxyOptions ==
    \E px \in ProxyInputs :
        RebuildFluent("WithHttpProxyOptions", WithHttpProxyOptions(builder, px),
                      WithHttpProxyOptions(value(twin), px))

RebuildBuild ==
    \E tlsAccepts \in BOOLEAN, ctxOk \in BOOLEAN :
        LET r == Build(builder, tlsAccepts, ctxOk)
            t == Build(value(twin), tlsAccepts, ctxOk)
        IN  /\ nOps < MaxOps
            /\ twinPhase.stage = "fresh"
            /\ call' = [op |-> "Build", args |-> <<>>, pre |-> builder, tlsAccepts |-> tlsAccepts,
                        ctxOk |-> ctxOk, warned |-> r.warned]
            /\ builder' = r.builder
            /\ config' = Some(r.config)
            /\ twinConfig' = Some(t.config)
            /\ nOps' = nOps + 1
            /\ UNCHANGED <<alpnSupported, ctorError, portAsked, authorizerAfter, twin,
                           twinPhase>>
            /\ UNCHANGED <<composeVars, clientVars, signerVars, factoryVars>>

NextRebuild ==
    \/ RebuildWithUsername
    \/ RebuildWithPortOverride
    \/ RebuildWithHttpProxyOptions
    \/ RebuildBuild

SpecRebuild == InitRebuild /\ [][NextRebuild]_vars

----------------------------------------------------------------------------
(* The client: a builder is set up and built once, and the configuration   *)
(* is handed to MqttClient::NewConnection, possibly several times.         *)

InitClient ==
    /\ alpnSupported \in BOOLEAN
    /\ builder \in Constructed
    /\ config = nullopt
    /\ call = NoCall
    /\ ctorError = builder.m_lastError
    /\ portAsked = nullopt
    /\ authorizerAfter = FALSE
    /\ nOps = 0
    /\ TwinOff
    /\ ComposeIdle
    /\ client \in {MqttClient(ok) : ok \in BOOLEAN}
    /\ connections = <<>>
    /\ lastNew = NoNewConnection
    /\ nNew = 0
    /\ SignerIdle
    /\ FactoryIdle

\* Build, by a caller that builds its configuration once.
BuildOnce ==
    /\ ~has_value(config)
    /\ DoBuild

DoNewConnection ==
    \E allocOk \in BOOLEAN, connValid \in BOOLEAN, loginOk \in BOOLEAN :
        /\ has_value(config)
        /\ nNew < MaxNew
        /\ LET r == NewConnection(client, value(config), allocOk, connValid, loginOk)
           IN  /\ client' = r.client
               /\ config' = Some(r.config)
               /\ connections' = IF has_value(r.result)
                                 THEN Append(connections, value(r.result))
                                 ELSE connections
               /\ lastNew' = [called |-> TRUE, config |-> value(config), before |-> client,
                              allocOk |-> allocOk, connValid |-> connValid,
                              loginOk |-> loginOk,
                              result |-> r.result, allocated |-> r.allocated]
        /\ nNew' = nNew + 1
        /\ UNCHANGED <<alpnSupported, builder, call, ctorError, portAsked, authorizerAfter,
                       nOps>>
        /\ UNCHANGED <<twinVars, composeVars, signerVars, factoryVars>>

NextClient ==
    \/ DoWithMetricsCollection
    \/ DoWithHttpProxyOptions
    \/ DoWithPassword
    \/ BuildOnce
    \/ DoNewConnection

SpecClient == InitClient /\ [][NextClient]_vars

----------------------------------------------------------------------------
(* The interceptor at work: a builder is built once; the transport calls   *)
(* the interceptor of the configuration for each connection attempt, and   *)
(* the signer completes its operations later, in any order.                *)

AWS_AUTH_SIGNING_NO_CREDENTIALS == 6146
Requests == [id : {"a", "b"}, signed : {FALSE}]
SignerResults == [id : {"a", "b"}, signed : BOOLEAN]
SignerErrorCodes == {0, AWS_AUTH_SIGNING_NO_CREDENTIALS}

\* The transport calls the interceptor with a request and a continuation of
\* its own; the interceptor returns once SignRequest has returned.
Intercept ==
    \E req \in Requests :
        /\ has_value(config)
        /\ ConfigValid(value(config))
        /\ has_value(value(config).m_webSocketInterceptor)
        /\ Len(invocations) < MaxInvocations
        /\ LET inv == Len(invocations) + 1
               onComplete == [continuation |-> inv]
               ops == InvokeInterceptor(value(value(config).m_webSocketInterceptor), req,
                                        onComplete)
           IN  /\ invocations' = Append(invocations, [req |-> req, onComplete |-> onComplete])
               /\ signOps' = signOps \o [k \in 1..Len(ops) |->
                                 [inv |-> inv, req |-> ops[k].req,
                                  signerConfig |-> ops[k].signerConfig,
                                  callback |-> ops[k].callback, completed |-> nullopt]]
               /\ events' = events \o <<[ev |-> "invoke", inv |-> inv],
                                        [ev |-> "CreateSigningConfigCb", inv |-> inv]>>
                                   \o [k \in 1..Len(ops) |-> [ev |-> "SignRequest", inv |-> inv]]
                                   \o <<[ev |-> "return", inv |-> inv]>>
        /\ UNCHANGED delivered
        /\ UNCHANGED <<alpnSupported, builder, config, call, ctorError, portAsked,
                       authorizerAfter, nOps>>
        /\ UNCHANGED <<twinVars, composeVars, clientVars, factoryVars>>

\* The signer completes one of its operations: it calls the completion
\* closure it was given, with a request and an error code.
SignerCompletes ==
    \E i \in 1..Len(signOps), req1 \in SignerResults, errorCode \in SignerErrorCodes :
        /\ ~has_value(signOps[i].completed)
        /\ LET calls == SigningComplete(signOps[i].callback, req1, errorCode)
           IN  /\ signOps' = [signOps EXCEPT
                                 ![i].completed = Some([req |-> req1, errorCode |-> errorCode])]
               /\ delivered' = delivered \o [k \in 1..Len(calls) |->
                                   [op |-> i, onComplete |-> calls[k].onComplete,
                                    req |-> calls[k].req, errorCode |-> calls[k].errorCode]]
               /\ events' = events \o <<[ev |-> "signingComplete", inv |-> signOps[i].inv]>>
                                   \o [k \in 1..Len(calls) |->
                                          [ev |-> "onComplete",
                                           inv |-> calls[k].onComplete.continuation]]
        /\ UNCHANGED invocations
        /\ UNCHANGED <<alpnSupported, builder, config, call, ctorError, portAsked,
                       authorizerAfter, nOps>>
        /\ UNCHANGED <<twinVars, composeVars, clientVars, factoryVars>>

NextSigner ==
    \/ BuildOnce
    \/ Intercept
    \/ SignerCompletes

SpecSigner == Init /\ [][NextSigner]_vars

----------------------------------------------------------------------------
(* The signing-configuration factory: the caller constructs a              *)
(* WebsocketConfig with a convenience constructor and a builder from it,   *)
(* then assigns the object's public fields and calls its factory.          *)

FactoryRegions == { "us-east-1", "eu-west-1" }
FactoryServices == { "iotdevicegateway", "execute-api" }
FactoryProviders == { DefaultCredentialsProvider, "otherProvider" }

InitFactory ==
    /\ alpnSupported \in BOOLEAN
    /\ wsObject \in {Some(WebsocketConfig(r, px)) :
                        r \in FactoryRegions, px \in WebsocketProxyInputs}
    /\ builder = BuilderWebsocket(value(wsObject), TRUE)
    /\ config = nullopt
    /\ call = NoCall
    /\ ctorError = builder.m_lastError
    /\ portAsked = nullopt
    /\ authorizerAfter = FALSE
    /\ nOps = 0
    /\ TwinOff
    /\ ComposeIdle
    /\ ClientIdle
    /\ SignerIdle
    /\ made = <<>>

FactoryFrame ==
    /\ UNCHANGED <<alpnSupported, builder, config, call, ctorError, portAsked,
                   authorizerAfter, nOps>>
    /\ UNCHANGED <<twinVars, composeVars, clientVars, signerVars>>

DoAssignSigningRegion ==
    \E region \in FactoryRegions :
        /\ wsObject' = Some(AssignSigningRegion(value(wsObject), region))
        /\ UNCHANGED made
        /\ FactoryFrame

DoAssignServiceName ==
    \E service \in FactoryServices :
        /\ wsObject' = Some(AssignServiceName(value(wsObject), service))
        /\ UNCHANGED made
        /\ FactoryFrame

DoAssignCredentialsProvider ==
    \E provider \in FactoryProviders :
        /\ wsObject' = Some(AssignCredentialsProvider(value(wsObject), provider))
        /\ UNCHANGED made
        /\ FactoryFrame

\* A call of wsObject.CreateSigningConfigCb(); the public fields at that
\* moment are noted next to the result.
DoCreateSigningConfig ==
    /\ Len(made) < MaxFactoryCalls
    /\ made' = Append(made, [result |-> CreateSigningConfig(value(wsObject).CreateSigningConfigCb),
                             SigningRegion |-> value(wsObject).SigningRegion,
                             ServiceName |-> value(wsObject).ServiceName,
                             CredentialsProvider |-> value(wsObject).CredentialsProvider])
    /\ UNCHANGED wsObject
    /\ FactoryFrame

NextFactory ==
    \/ DoAssignSigningRegion
    \/ DoAssignServiceName
    \/ DoAssignCredentialsProvider
    \/ DoCreateSigningConfig

SpecFactory == InitFactory /\ [][NextFactory]_vars

----------------------------------------------------------------------------
(* Vocabulary of the properties *)

\* The last operation was Build; Built is the configuration it returned.
JustBuilt == call.op = "Build" /\ has_value(config)
Built == value(config)

\* s contains sub as a substring / s contains the character c.
ContainsSubstring(s, sub) ==
    \E k \in 0..Len(s) :
        /\ k + Len(sub) <= Len(s)
        /\ \A j \in 1..Len(sub) : s[k + j] = sub[j]
HasChar(s, c) == \E i \in 1..Len(s) : s[i] = c

----------------------------------------------------------------------------
(* C1: when no port override is set, a successful Build returns port 443   *)
(* if the builder has a WebSocket setup or the platform supports ALPN, and *)
(* port 8883 otherwise.                                                    *)

----------------------------------------------------------------------------
(* C2 (as stated): once WithPortOverride(p) has been called, whatever      *)
(* other fluent calls precede or follow it, a successful Build returns     *)
(* port p.                                                                 *)

C2_OverrideAlwaysWins ==
    (JustBuilt /\ ConfigValid(Built) /\ has_value(portAsked))
        => Built.m_port = value(portAsked)

(* C2 (amended): once WithPortOverride(p) with p # 0 has been called and   *)
(* no WithCustomAuthorizer call follows it, whatever other fluent calls    *)
(* precede or follow it, a successful Build returns port p.                *)

C2_OverrideWinsUnlessAuthorizer ==
    (JustBuilt /\ ConfigValid(Built) /\ has_value(portAsked)
        /\ value(portAsked) # 0 /\ ~authorizerAfter)
        => Built.m_port = value(portAsked)

\* WithPortOverride(8883) after WithCustomAuthorizer, on the ALPN platform
\* whose default is 443.
C2_Witness ==
    /\ JustBuilt /\ ConfigValid(Built)
    /\ portAsked = Some(8883) /\ ~authorizerAfter
    /\ call.pre.m_isUsingCustomAuthorizer /\ alpnSupported
    /\ Built.m_port = 8883

----------------------------------------------------------------------------
(* C3: in Build, when the resolved port is 443, no WebSocket setup is      *)
(* present, ALPN is supported and custom-authorizer is not in use, the     *)
(* ALPN list of the TLS options used to realize the context is exactly     *)
(* ["x-amzn-mqtt-ca"]; if the TLS layer rejects the list, Build returns an *)
(* invalid configuration carrying the TLS options' error.                  *)

\* Build ran past its sticky-error check in the direct-mTLS ALPN case.  With
\* ALPN supported the resolved port is 443 exactly when the override is 0 or 443.
DirectMtlsCase ==
    /\ JustBuilt /\ call.pre.m_lastError = 0
    /\ call.pre.m_portOverride \in {0, 443}
    /\ ~has_value(call.pre.m_websocketConfig)
    /\ alpnSupported
    /\ ~builder.m_isUsingCustomAuthorizer

C3_DirectMtlsAlpn ==
    DirectMtlsCase =>
        /\ call.tlsAccepts =>
              /\ builder.m_contextOptions.alpnList = <<"x-amzn-mqtt-ca">>
              /\ ConfigValid(Built) => Built.m_context.alpnList = <<"x-amzn-mqtt-ca">>
              /\ ConfigValid(Built) => Built.m_port = 443
        /\ ~call.tlsAccepts =>
              /\ ~ConfigValid(Built)
              /\ Built.m_lastError # 0
              /\ Built.m_lastError = builder.m_contextOptions.lastError

C3_Witness ==
    /\ DirectMtlsCase /\ call.tlsAccepts /\ ConfigValid(Built)
    /\ Built.m_context.alpnList = <<"x-amzn-mqtt-ca">>

----------------------------------------------------------------------------
(* C4: whenever custom-authorizer is in use at Build time (set explicitly  *)
(* or detected from the username), the ALPN list used to realize the TLS   *)
(* context is exactly ["mqtt"], for every resolved port; a resolved port   *)
(* other than 443 only produces a warning and does not make the returned   *)
(* configuration invalid.                                                  *)

CustomAuthorizerCase ==
    /\ JustBuilt /\ call.pre.m_lastError = 0
    /\ builder.m_isUsingCustomAuthorizer

C4_CustomAuthorizerAlpn ==
    CustomAuthorizerCase =>
        /\ call.tlsAccepts => builder.m_contextOptions.alpnList = <<"mqtt">>
        /\ ConfigValid(Built) => Built.m_context.alpnList = <<"mqtt">>
        /\ (call.tlsAccepts /\ call.ctxOk) => (ConfigValid(Built) /\ Built.m_lastError = 0)
        /\ ConfigValid(Built) => (call.warned <=> Built.m_port # 443)

C4_Witness ==
    /\ CustomAuthorizerCase /\ ConfigValid(Built)
    /\ Built.m_port = 8883 /\ call.warned
    /\ Built.m_context.alpnList = <<"mqtt">>

----------------------------------------------------------------------------
(* C5 (as stated): for a builder constructed from a WebsocketConfig and    *)
(* configured through WithUsername / WithPassword / WithPortOverride /     *)
(* WithMetricsCollection only, Build never sets the ALPN list to           *)
(* ["x-amzn-mqtt-ca"] or to ["mqtt"].                                      *)

\* Build ran past its sticky-error check on a WebSocket builder on which
\* custom-authorizer had not been flagged before.
WebsocketCase ==
    /\ JustBuilt /\ call.pre.m_lastError = 0
    /\ has_value(call.pre.m_websocketConfig)
    /\ ~call.pre.m_isUsingCustomAuthorizer

C5_WebsocketNeverSetsAlpn ==
    WebsocketCase =>
        /\ builder.m_contextOptions.alpnList # <<"x-amzn-mqtt-ca">>
        /\ builder.m_contextOptions.alpnList # <<"mqtt">>

(* C5 (amended): on that path Build never sets the ALPN list to            *)
(* ["x-amzn-mqtt-ca"]; it sets ["mqtt"] exactly when its check of the      *)
(* username marks custom-authorizer as in use (and the TLS options accept  *)
(* the list), which never happens for an empty username; otherwise it      *)
(* leaves the list empty.                                                  *)

C5_WebsocketAlpn ==
    WebsocketCase =>
        /\ builder.m_contextOptions.alpnList # <<"x-amzn-mqtt-ca">>
        /\ builder.m_contextOptions.alpnList = <<"mqtt">>
              <=> (builder.m_isUsingCustomAuthorizer /\ call.tlsAccepts)
        /\ builder.m_contextOptions.alpnList # <<"mqtt">>
              => builder.m_contextOptions.alpnList = <<>>
        /\ call.pre.m_username = <<>> => builder.m_contextOptions.alpnList = <<>>

C5_Witness ==
    /\ WebsocketCase /\ ConfigValid(Built) /\ alpnSupported
    /\ Built.m_port = 443
    /\ call.pre.m_username = <<>>
    /\ Built.m_context.alpnList = <<>>

----------------------------------------------------------------------------
(* C6: if WithCustomAuthorizer was never called and the username contains  *)
(* neither "x-amz-customauthorizer-name=" nor                              *)
(* "x-amz-customauthorizer-signature=" as a substring, Build leaves the    *)
(* custom-authorizer flag false and, with port 443, ALPN supported and no  *)
(* WebSocket setup, the ALPN list is ["x-amzn-mqtt-ca"], not ["mqtt"].     *)

C6_DetectionBySubstring ==
    (/\ JustBuilt /\ call.pre.m_lastError = 0
     /\ ~call.pre.m_isUsingCustomAuthorizer
     /\ ~ContainsSubstring(call.pre.m_username, CustomAuthorizerNameKey)
     /\ ~ContainsSubstring(call.pre.m_username, CustomAuthorizerSignatureKey))
        => /\ ~builder.m_isUsingCustomAuthorizer
           /\ (/\ call.pre.m_portOverride \in {0, 443}
               /\ alpnSupported
               /\ ~has_value(call.pre.m_websocketConfig)
               /\ call.tlsAccepts)
                 => builder.m_contextOptions.alpnList = <<"x-amzn-mqtt-ca">>

----------------------------------------------------------------------------
(* C7 (as stated): a builder given a username containing                   *)
(* "x-amz-customauthorizer-name=foo" through WithUsername and an otherwise *)
(* identical builder given the authorizer name foo through                 *)
(* WithCustomAuthorizer end Build with the same ALPN list and the same     *)
(* validity of the returned configuration, with and without ALPN support.  *)

AlpnOutcome(c) == [valid |-> ConfigValid(c), alpnList |-> c.m_context.alpnList]

TwinsBuilt == twinPhase.stage = "built" /\ has_value(config) /\ has_value(twinConfig)

----------------------------------------------------------------------------
(* C8: compose(current, paramValue, paramKeyPrefix) is current, then "?"   *)
(* if current contains no "?" and "&" otherwise, then paramValue alone if  *)
(* paramValue contains paramKeyPrefix as a substring and                   *)
(* paramKeyPrefix + paramValue otherwise; compose("", "bar", "name=") =    *)
(* "?name=bar" and compose("?a=1", "bar", "name=") = "?a=1&name=bar"; a    *)
(* value that already contains the prefix never gets it a second time.     *)

Composed == value(lastCompose)

\* The number of positions at which sub occurs in s.
Occurrences(s, sub) ==
    Cardinality({k \in 0..Len(s) :
                    /\ k + Len(sub) <= Len(s)
                    /\ \A j \in 1..Len(sub) : s[k + j] = sub[j]})

C8_Composer ==
    has_value(lastCompose) =>
        LET c == Composed.currentUsername
            v == Composed.parameterValue
            k == Composed.parameterPreText
            r == Composed.result
            tail == SubSeq(r, Len(c) + 2, Len(r))
        IN  /\ Len(r) >= Len(c) + 1
            /\ SubSeq(r, 1, Len(c)) = c
            /\ r[Len(c) + 1] = (IF HasChar(c, "?") THEN "&" ELSE "?")
            /\ ContainsSubstring(v, k) => tail = v
            /\ ~ContainsSubstring(v, k) => tail = k \o v
            /\ Occurrences(tail, k) = (IF ContainsSubstring(v, k) THEN Occurrences(v, k) ELSE 1)
            /\ (c = <<>> /\ v = <<"b", "a", "r">> /\ k = <<"n", "a", "m", "e", "=">>)
                  => r = <<"?", "n", "a", "m", "e", "=", "b", "a", "r">>
            /\ (c = <<"?", "a", "=", "1">> /\ v = <<"b", "a", "r">>
                    /\ k = <<"n", "a", "m", "e", "=">>)
                  => r = <<"?", "a", "=", "1", "&", "n", "a", "m", "e", "=", "b", "a", "r">>

\* The second of two calls, with a value that already contains the prefix.
C8_Witness ==
    /\ nCompose = 2 /\ has_value(lastCompose)
    /\ Composed.parameterValue = <<"n", "a", "m", "e", "=", "b", "a", "r">>
    /\ Composed.parameterPreText = <<"n", "a", "m", "e", "=">>
    /\ Composed.currentUsername = <<"?", "n", "a", "m", "e", "=", "b", "a", "r">>
    /\ Composed.result = <<"?", "n", "a", "m", "e", "=", "b", "a", "r",
                           "&", "n", "a", "m", "e", "=", "b", "a", "r">>

----------------------------------------------------------------------------
(* C9: with metrics enabled the username of the returned configuration is  *)
(* the builder's username, then "?" if that contains no "?" and "&"        *)
(* otherwise, then "SDK=<sdkName>&Version=<sdkVersion>"; an empty username *)
(* with the defaults gives "?SDK=CPPv2&Version=<version>"; with metrics    *)
(* disabled the configuration's username is the builder's, unchanged.      *)

C9_MetricsUsername ==
    (JustBuilt /\ ConfigValid(Built)) =>
        LET u == call.pre.m_username
            r == Built.m_username
        IN  /\ call.pre.m_enableMetricsCollection =>
                  r = u \o (IF HasChar(u, "?") THEN <<"&">> ELSE <<"?">>)
                        \o <<"S", "D", "K", "=">> \o call.pre.m_sdkName
                        \o <<"&", "V", "e", "r", "s", "i", "o", "n", "=">>
                        \o call.pre.m_sdkVersion
            /\ (/\ call.pre.m_enableMetricsCollection /\ u = <<>>
                /\ call.pre.m_sdkName = DefaultSdkName
                /\ call.pre.m_sdkVersion = DefaultSdkVersion)
                  => r = <<"?", "S", "D", "K", "=", "C", "P", "P", "v", "2",
                           "&", "V", "e", "r", "s", "i", "o", "n", "=">> \o DefaultSdkVersion
            /\ ~call.pre.m_enableMetricsCollection => r = u

C9_Witness ==
    /\ JustBuilt /\ ConfigValid(Built)
    /\ call.pre.m_enableMetricsCollection
    /\ call.pre.m_username = <<"?", "a", "=", "1">>
    /\ Built.m_username = <<"?", "a", "=", "1", "&", "S", "D", "K", "=", "C", "P", "P", "v", "2",
                            "&", "V", "e", "r", "s", "i", "o", "n", "=">> \o DefaultSdkVersion

----------------------------------------------------------------------------
(* C10: on the WebSocket path the proxy options of the configuration       *)
(* returned by Build are the builder-level options whenever those are set, *)
(* also when the WebsocketConfig carries ProxyOptions; they are the        *)
(* WebsocketConfig's ProxyOptions only when the builder-level options are  *)
(* absent; they are absent when neither is set.                            *)

C10_ProxyPrecedence ==
    (JustBuilt /\ ConfigValid(Built) /\ has_value(call.pre.m_websocketConfig)) =>
        LET builderLevel == call.pre.m_proxyOptions
            websocketLevel == call.pre.m_websocketConfig[1].ProxyOptions
        IN  /\ builderLevel # <<>> => Built.m_proxyOptions = builderLevel
            /\ (builderLevel = <<>> /\ websocketLevel # <<>>)
                  => Built.m_proxyOptions = websocketLevel
            /\ (builderLevel = <<>> /\ websocketLevel = <<>>) => Built.m_proxyOptions = <<>>

C10_Witness ==
    /\ JustBuilt /\ ConfigValid(Built) /\ has_value(call.pre.m_websocketConfig)
    /\ call.pre.m_proxyOptions = <<"builderProxy">>
    /\ call.pre.m_websocketConfig[1].ProxyOptions = <<"websocketProxy">>
    /\ Built.m_proxyOptions = <<"builderProxy">>

----------------------------------------------------------------------------
(* C11: a builder initialized with a valid certificate/key pair and no     *)
(* WebSocket setup, given an endpoint and a port, yields on Build a valid  *)
(* configuration that carries exactly that endpoint and port, carries no   *)
(* interceptor, and whose proxy options are exactly the builder-level      *)
(* proxy options (absent if none were set).                                *)

\* Build on a builder without error and without WebSocket setup, the TLS
\* layer accepting the ALPN list and realizing the context.
DirectCase ==
    /\ JustBuilt /\ call.pre.m_lastError = 0
    /\ ~has_value(call.pre.m_websocketConfig)
    /\ call.tlsAccepts /\ call.ctxOk

C11_DirectRoundTrip ==
    DirectCase =>
        /\ ConfigValid(Built)
        /\ Built.m_lastError = 0
        /\ Built.m_endpoint = call.pre.m_endpoint
        /\ call.pre.m_portOverride # 0 => Built.m_port = call.pre.m_portOverride
        /\ Built.m_webSocketInterceptor = <<>>
        /\ Built.m_proxyOptions = call.pre.m_proxyOptions

C11_Witness ==
    /\ DirectCase
    /\ Built.m_endpoint = "a.iot.example"
    /\ portAsked = <<8883>> /\ Built.m_port = 8883
    /\ Built.m_webSocketInterceptor = <<>>
    /\ Built.m_proxyOptions = <<>>

----------------------------------------------------------------------------
(* C12 (as stated): if construction of the builder failed with error e,   *)
(* then after any sequence of subsequent fluent calls Build returns an     *)
(* invalid configuration whose LastError is exactly e.                     *)

C12_ConstructionErrorReachesBuild ==
    (JustBuilt /\ ctorError # 0) =>
        /\ ~ConfigValid(Built)
        /\ Built.m_lastError = ctorError

(* C12 (amended): if construction of the builder failed, the builder stays *)
(* in error whatever is called on it; every operation other than           *)
(* WithCustomAuthorizer leaves the recorded error as it was (a             *)
(* WithCustomAuthorizer call that fails replaces it by its own error), and *)
(* Build returns an invalid configuration whose LastError is the error     *)
(* recorded in the builder at that moment.                                 *)

C12_ConstructionErrorSurvives ==
    [][ctorError # 0 =>
          /\ builder'.m_lastError # 0
          /\ call'.op # "WithCustomAuthorizer" => builder'.m_lastError = builder.m_lastError
          /\ call'.op = "Build" =>
                /\ has_value(config')
                /\ ~ConfigValid(value(config'))
                /\ value(config').m_lastError = builder.m_lastError]_vars

\* Build after two other calls on a builder whose construction failed.
C12_Witness ==
    /\ JustBuilt /\ ctorError # 0 /\ nOps = 3
    /\ call.pre.m_endpoint = "a.iot.example"
    /\ ~ConfigValid(Built)
    /\ Built.m_lastError = ctorError

----------------------------------------------------------------------------
(* C13 (as stated): once the builder carries a sticky error, every         *)
(* subsequent fluent call is a no-op: it changes none of the builder's     *)
(* fields and leaves the sticky error value as it was.                     *)

InfallibleSetters ==
    {"WithEndpoint", "WithMetricsCollection", "WithSdkName", "WithSdkVersion",
     "WithPortOverride", "WithTcpKeepAlive", "WithHttpProxyOptions", "WithUsername",
     "WithPassword"}
FluentCalls == InfallibleSetters \cup {"WithCertificateAuthority", "WithCustomAuthorizer"}

\* The last operation was a fluent call on a builder that carried an error.
FluentCallInError == call.op \in FluentCalls /\ call.pre.m_lastError # 0

C13_FluentCallsAreNoOpsInError ==
    FluentCallInError => builder = call.pre

(* C13 (amended): once the builder carries a sticky error, every           *)
(* subsequent fluent call leaves it in error (the error stays non-zero);   *)
(* the setters that cannot fail leave the error value as it was, and leave *)
(* the TLS options and the custom-authorizer flag alone, but each still    *)
(* assigns the field it sets; WithCertificateAuthority changes nothing     *)
(* when the TLS options were never initialized.                            *)

C13_FluentCallsKeepError ==
    FluentCallInError =>
        /\ builder.m_lastError # 0
        /\ call.op \in InfallibleSetters =>
              /\ builder.m_lastError = call.pre.m_lastError
              /\ builder.m_contextOptions = call.pre.m_contextOptions
              /\ builder.m_isUsingCustomAuthorizer = call.pre.m_isUsingCustomAuthorizer
              /\ builder.m_websocketConfig = call.pre.m_websocketConfig
        /\ (call.op = "WithEndpoint" /\ call.pre.m_endpoint # "a.iot.example")
              => builder.m_endpoint # call.pre.m_endpoint
        /\ (call.op = "WithCertificateAuthority" /\ ~call.pre.m_contextOptions.m_isInit)
              => builder = call.pre

C13_Witness ==
    /\ FluentCallInError /\ call.op = "WithEndpoint"
    /\ ctorError # 0
    /\ call.pre.m_endpoint = "" /\ builder.m_endpoint = "a.iot.example"
    /\ builder.m_lastError = ctorError

----------------------------------------------------------------------------
(* C14: every call of Build returns a configuration, and the returned      *)
(* configuration is valid if and only if its LastError() is 0; when TLS    *)
(* context realization fails the result is invalid and carries the         *)
(* realization error.                                                      *)

C14_ValidIffNoError ==
    call.op = "Build" =>
        /\ has_value(config)
        /\ ConfigValid(Built) <=> Built.m_lastError = 0
        /\ (call.pre.m_lastError = 0 /\ call.tlsAccepts /\ ~call.ctxOk)
              => /\ ~ConfigValid(Built)
                 /\ Built.m_lastError # 0
                 /\ Built.m_lastError =
                       TlsContext(builder.m_contextOptions, FALSE).initializationError

C14_Witness ==
    /\ JustBuilt /\ call.pre.m_lastError = 0 /\ call.tlsAccepts /\ ~call.ctxOk
    /\ ~ConfigValid(Built)
    /\ Built.m_lastError = AWS_IO_TLS_CTX_ERROR

----------------------------------------------------------------------------
(* C19: WithCustomAuthorizer(username, authorizerName, authorizerSignature, *)
(* password) on an ALPN-capable platform sets the builder's username to    *)
(* the given username if non-empty, else the previously set username, then *)
(* composed with "x-amz-customauthorizer-name=" and authorizerName if      *)
(* authorizerName is non-empty, then composed with                         *)
(* "x-amz-customauthorizer-signature=" and authorizerSignature if          *)
(* authorizerSignature is non-empty; it sets the password to the given     *)
(* password, the port override to 443, the custom-authorizer flag, and     *)
(* (the TLS layer accepting the list) the ALPN list to ["mqtt"]; with all  *)
(* of username, previous username, authorizerName and authorizerSignature  *)
(* empty the builder's username stays empty.                               *)

\* The composition of C8, written out.
ComposedWith(current, paramValue, paramKeyPrefix) ==
    current \o (IF HasChar(current, "?") THEN <<"&">> ELSE <<"?">>)
            \o (IF ContainsSubstring(paramValue, paramKeyPrefix)
                THEN paramValue ELSE paramKeyPrefix \o paramValue)

AuthorizerCallOnAlpn == call.op = "WithCustomAuthorizer" /\ alpnSupported

C19_WithCustomAuthorizer ==
    AuthorizerCallOnAlpn =>
        LET username == call.args[1]
            authorizerName == call.args[2]
            authorizerSignature == call.args[3]
            password == call.args[4]
            base == IF username # <<>> THEN username ELSE call.pre.m_username
            named == IF authorizerName # <<>>
                     THEN ComposedWith(base, authorizerName,
                              <<"x", "-", "a", "m", "z", "-", "c", "u", "s", "t", "o", "m",
                                "a", "u", "t", "h", "o", "r", "i", "z", "e", "r", "-",
                                "n", "a", "m", "e", "=">>)
                     ELSE base
            signed == IF authorizerSignature # <<>>
                      THEN ComposedWith(named, authorizerSignature,
                               <<"x", "-", "a", "m", "z", "-", "c", "u", "s", "t", "o", "m",
                                 "a", "u", "t", "h", "o", "r", "i", "z", "e", "r", "-",
                                 "s", "i", "g", "n", "a", "t", "u", "r", "e", "=">>)
                      ELSE named
        IN  /\ builder.m_username = signed
            /\ builder.m_password = password
            /\ builder.m_portOverride = 443
            /\ builder.m_isUsingCustomAuthorizer
            /\ call.tlsAccepts => builder.m_contextOptions.alpnList = <<"mqtt">>
            /\ (username = <<>> /\ call.pre.m_username = <<>> /\ authorizerName = <<>>
                    /\ authorizerSignature = <<>>)
                  => builder.m_username = <<>>

\* The username set earlier is kept and both parameters are appended.
C19_Witness ==
    /\ AuthorizerCallOnAlpn /\ call.tlsAccepts
    /\ call.args = <<EmptyString, Foo, Sig, "pw">>
    /\ call.pre.m_username = <<"b", "d", "f">>
    /\ builder.m_username =
          <<"b", "d", "f">> \o QuestionMark \o CustomAuthorizerNameKey \o Foo
              \o Ampersand \o CustomAuthorizerSignatureKey \o Sig
    /\ builder.m_password = "pw" /\ builder.m_portOverride = 443
    /\ builder.m_contextOptions.alpnList = <<"mqtt">>

----------------------------------------------------------------------------
(* C15: NewConnection on an invalid configuration allocates no connection, *)
(* returns no connection handle, and immediately afterwards the client's   *)
(* LastError() equals the configuration's LastError().                     *)

\* The last operation was NewConnection.
JustConnected == lastNew.called

C15_InvalidConfigErrorPropagates ==
    (JustConnected /\ ~ConfigValid(lastNew.config)) =>
        /\ lastNew.allocated = <<>>
        /\ lastNew.result = <<>>
        /\ MqttClientLastError(client) = lastNew.config.m_lastError

----------------------------------------------------------------------------
(* C16: NewConnection never partially commits a connection: if allocation  *)
(* fails, or the allocated connection is invalid, or setLogin fails,       *)
(* NewConnection returns no connection handle, and in the setLogin-failure *)
(* case neither the interceptor is attached nor the proxy options applied  *)
(* to the discarded connection.                                            *)

\* NewConnection got past the validity check of its configuration.
ConnectAttempted == JustConnected /\ ConfigValid(lastNew.config)
LoginWanted == lastNew.config.m_username # <<>> \/ lastNew.config.m_password # ""
LoginFailed ==
    /\ ConnectAttempted /\ lastNew.allocOk /\ lastNew.connValid
    /\ LoginWanted /\ ~lastNew.loginOk

C16_NoPartialCommit ==
    ConnectAttempted =>
        /\ ~lastNew.allocOk => (lastNew.result = <<>> /\ lastNew.allocated = <<>>)
        /\ (lastNew.allocOk /\ ~lastNew.connValid) => lastNew.result = <<>>
        /\ LoginFailed =>
              /\ lastNew.result = <<>>
              /\ lastNew.allocated # <<>>
              /\ lastNew.allocated[1].login = <<>>
              /\ lastNew.allocated[1].WebsocketInterceptor = <<>>
              /\ lastNew.allocated[1].proxyOptions = <<>>
        /\ lastNew.result = <<>> => Len(connections) < nNew

\* SetLogin fails for a configuration that has an interceptor and proxy options.
C16_Witness ==
    /\ LoginFailed
    /\ lastNew.config.m_webSocketInterceptor # <<>>
    /\ lastNew.config.m_proxyOptions # <<>>
    /\ lastNew.result = <<>>
    /\ lastNew.allocated[1].WebsocketInterceptor = <<>>

----------------------------------------------------------------------------
(* C20 (as stated): over any sequence of NewConnection calls, at most one  *)
(* connection is ever built from the TLS context of a given configuration. *)

C20_ContextUsedOnce ==
    has_value(config) =>
        Cardinality({i \in 1..Len(connections) :
                        connections[i].tlsContext = value(config).m_context}) <= 1

(* C20 (amended): NewConnection leaves the configuration as it was, so a   *)
(* valid configuration stays valid and usable; every connection built from *)
(* it carries the configuration's TLS context, and a later NewConnection   *)
(* on the same configuration succeeds whenever the allocation, the         *)
(* connection and the login succeed.                                       *)

C20_ConfigurationReusable ==
    JustConnected =>
        /\ config = Some(lastNew.config)
        /\ \A i \in 1..Len(connections) : connections[i].tlsContext = lastNew.config.m_context
        /\ (ConnectAttempted /\ lastNew.allocOk /\ lastNew.connValid
                /\ (LoginWanted => lastNew.loginOk))
              => /\ lastNew.result # <<>>
                 /\ connections # <<>>
                 /\ connections[Len(connections)] = lastNew.result[1]

\* Two connections from one configuration.
C20_Witness ==
    /\ JustConnected /\ nNew = 2
    /\ Len(connections) = 2
    /\ ConfigValid(value(config))
    /\ connections[1].tlsContext = value(config).m_context
    /\ connections[2].tlsContext = value(config).m_context

----------------------------------------------------------------------------
(* C17: for every request passed to the interceptor and every (request r', *)
(* error code c) with which the signer completes, the caller's completion  *)
(* continuation is invoked with exactly r' and c; in particular a signer   *)
(* that completes with a fixed error code and the original request causes  *)
(* the continuation to receive that code and the original request.         *)

\* The continuation calls caused by the completion of signer operation i.
DeliveredFor(i) == {k \in 1..Len(delivered) : delivered[k].op = i}

C17_CompletionForwarded ==
    \A i \in 1..Len(signOps) :
        /\ signOps[i].req = invocations[signOps[i].inv].req
        /\ has_value(signOps[i].completed) =>
              /\ Cardinality(DeliveredFor(i)) = 1
              /\ \A k \in DeliveredFor(i) :
                    /\ delivered[k].onComplete = invocations[signOps[i].inv].onComplete
                    /\ delivered[k].req = value(signOps[i].completed).req
                    /\ delivered[k].errorCode = value(signOps[i].completed).errorCode
        /\ ~has_value(signOps[i].completed) => DeliveredFor(i) = {}

\* The signer fails the signing of request "a" and hands the request back as it was.
C17_Witness ==
    /\ Len(invocations) = 1 /\ Len(delivered) = 1
    /\ invocations[1].req = [id |-> "a", signed |-> FALSE]
    /\ signOps[1].completed = <<[req |-> [id |-> "a", signed |-> FALSE],
                                 errorCode |-> AWS_AUTH_SIGNING_NO_CREDENTIALS]>>
    /\ delivered[1].req = [id |-> "a", signed |-> FALSE]
    /\ delivered[1].errorCode = AWS_AUTH_SIGNING_NO_CREDENTIALS
    /\ delivered[1].onComplete = invocations[1].onComplete

----------------------------------------------------------------------------
(* C18: each invocation of the interceptor calls the signer's SignRequest  *)
(* exactly once, and when the signer completes with a non-zero error code  *)
(* the interceptor does not call SignRequest again; the error is only      *)
(* forwarded.                                                              *)

SignOpsOf(inv) == {i \in 1..Len(signOps) : signOps[i].inv = inv}

C18_OneSigningAttempt ==
    /\ \A inv \in 1..Len(invocations) : Cardinality(SignOpsOf(inv)) = 1
    /\ Len(signOps) = Len(invocations)
    /\ Cardinality({k \in 1..Len(events) : events[k].ev = "SignRequest"}) = Len(invocations)

\* A signing failure has been forwarded, and signing was not tried again.
C18_Witness ==
    /\ Len(invocations) = 2 /\ Len(signOps) = 2
    /\ \E i \in 1..2 :
          /\ has_value(signOps[i].completed)
          /\ value(signOps[i].completed).errorCode # 0
          /\ \E k \in DeliveredFor(i) : delivered[k].errorCode # 0
    /\ events[Len(events)].ev = "onComplete"

----------------------------------------------------------------------------
(* C21: if, after a first Build, fluent setters change the builder, the    *)
(* next Build returns the same port, ALPN protocol list, username and      *)
(* proxy options as Build on a fresh builder constructed the same way and  *)
(* given the same final setter values without any earlier Build.           *)

\* Build has just run on the builder, and would succeed on the fresh one too.
RebuiltAndFresh ==
    /\ twinPhase.stage = "fresh"
    /\ call.op = "Build" /\ has_value(config) /\ has_value(twinConfig)
    /\ ConfigValid(value(config)) /\ ConfigValid(value(twinConfig))

C21_RebuildLikeFresh ==
    RebuiltAndFresh =>
        /\ value(config).m_port = value(twinConfig).m_port
        /\ value(config).m_context.alpnList = value(twinConfig).m_context.alpnList
        /\ value(config).m_username = value(twinConfig).m_username
        /\ value(config).m_proxyOptions = value(twinConfig).m_proxyOptions

----------------------------------------------------------------------------
(* C22: a fallible builder method that fails records the error in          *)
(* last-error and leaves every other builder field unchanged: after a      *)
(* failing WithCertificateAuthority or WithCustomAuthorizer (ALPN          *)
(* unsupported, or the ALPN list rejected by the TLS options) the          *)
(* username, password, port override, custom-authorizer flag, proxy        *)
(* options and endpoint equal their values before the call, and last-error *)
(* is non-zero.                                                            *)

\* The last operation was a fallible fluent call, and it failed.
FallibleCallFailed ==
    \/ /\ call.op = "WithCertificateAuthority"
       /\ call.pre.m_contextOptions.m_isInit
       /\ ~call.tlsAccepts
    \/ /\ call.op = "WithCustomAuthorizer"
       /\ ~alpnSupported \/ ~call.tlsAccepts

C22_FailureLeavesFieldsUnchanged ==
    FallibleCallFailed =>
        /\ builder.m_lastError # 0
        /\ builder.m_username = call.pre.m_username
        /\ builder.m_password = call.pre.m_password
        /\ builder.m_portOverride = call.pre.m_portOverride
        /\ builder.m_isUsingCustomAuthorizer = call.pre.m_isUsingCustomAuthorizer
        /\ builder.m_proxyOptions = call.pre.m_proxyOptions
        /\ builder.m_endpoint = call.pre.m_endpoint

----------------------------------------------------------------------------
(* C23: a configuration returned by a successful Build carries an          *)
(* interceptor if and only if the builder had a WebSocket setup;           *)
(* NewConnection allocates the connection with useWebsocket = true if and  *)
(* only if the configuration carries an interceptor, and attaches that     *)
(* interceptor to the connection exactly in that case.                     *)

C23_WebsocketDecision ==
    /\ (call.op = "Build" /\ has_value(config) /\ ConfigValid(value(config))) =>
          (value(config).m_webSocketInterceptor # <<>> <=> call.pre.m_websocketConfig # <<>>)
    /\ (JustConnected /\ lastNew.allocated # <<>>) =>
          (lastNew.allocated[1].useWebsocket <=> lastNew.config.m_webSocketInterceptor # <<>>)
    /\ (JustConnected /\ lastNew.result # <<>>) =>
          /\ lastNew.result[1].WebsocketInterceptor = lastNew.config.m_webSocketInterceptor
          /\ lastNew.result[1].useWebsocket <=> lastNew.result[1].WebsocketInterceptor # <<>>

\* A connection from a WebSocket builder: allocated for WebSocket, interceptor attached.
C23_Witness ==
    /\ JustConnected /\ lastNew.result # <<>>
    /\ call.op = "Build" /\ call.pre.m_websocketConfig # <<>>
    /\ config = Some(lastNew.config)
    /\ lastNew.result[1].useWebsocket
    /\ lastNew.result[1].WebsocketInterceptor =
          Some(SignerTransform(value(call.pre.m_websocketConfig)))

----------------------------------------------------------------------------
(* C24: SetLogin is called on the new connection if and only if the        *)
(* configuration's username or password is non-empty (with the             *)
(* configuration's exact username and password), SetHttpProxyOptions is    *)
(* called if and only if the configuration carries proxy options (with     *)
(* exactly those options), and NewConnection leaves the configuration      *)
(* itself unchanged.                                                       *)

C24_OptionalParts ==
    JustConnected =>
        /\ config = Some(lastNew.config)
        /\ lastNew.result # <<>> =>
              /\ lastNew.result[1].login =
                    (IF lastNew.config.m_username # <<>> \/ lastNew.config.m_password # ""
                     THEN <<[username |-> lastNew.config.m_username,
                             password |-> lastNew.config.m_password]>>
                     ELSE <<>>)
              /\ lastNew.result[1].proxyOptions = lastNew.config.m_proxyOptions
        \* without a username and a password the outcome of a login plays no part
        /\ (ConnectAttempted /\ lastNew.allocOk /\ lastNew.connValid
                /\ lastNew.config.m_username = <<>> /\ lastNew.config.m_password = "")
              => lastNew.result # <<>>
        \* with one of them, a failing login fails the call
        /\ (ConnectAttempted /\ ~lastNew.loginOk
                /\ (lastNew.config.m_username # <<>> \/ lastNew.config.m_password # ""))
              => lastNew.result = <<>>

\* A password without a username, and proxy options.
C24_Witness ==
    /\ JustConnected /\ lastNew.result # <<>>
    /\ lastNew.config.m_username = <<>> /\ lastNew.config.m_password = "pw"
    /\ lastNew.result[1].login = <<[username |-> <<>>, password |-> "pw"]>>
    /\ lastNew.config.m_proxyOptions # <<>>
    /\ lastNew.result[1].proxyOptions = lastNew.config.m_proxyOptions

----------------------------------------------------------------------------
(* C25: every invocation of the factory built by the convenience           *)
(* WebsocketConfig constructors, however many have happened before,        *)
(* returns a signing configuration with region = the signing region given  *)
(* at construction, service = "iotdevicegateway", algorithm = SigV4,       *)
(* signature placement = query parameters, omit-session-token = true and   *)
(* the credentials source bound at construction; assigning new values to   *)
(* the public SigningRegion, ServiceName or CredentialsProvider fields     *)
(* does not change what the factory returns.                               *)

\* The WebsocketConfig as it was right after construction: the copy the
\* builder took then.
AsConstructed == value(builder.m_websocketConfig)

C25_FactoryStable ==
    \A k \in 1..Len(made) :
        made[k].result =
            [Region |-> AsConstructed.SigningRegion,
             Service |-> "iotdevicegateway",
             SigningAlgorithm |-> "SigV4",
             SignatureType |-> "HttpRequestViaQueryParams",
             OmitSessionToken |-> TRUE,
             CredentialsProvider |-> AsConstructed.CredentialsProvider]

\* The second call, made after all three public fields were given other values.
C25_Witness ==
    /\ Len(made) = 2
    /\ made[2].SigningRegion # AsConstructed.SigningRegion
    /\ made[2].ServiceName # "iotdevicegateway"
    /\ made[2].CredentialsProvider # AsConstructed.CredentialsProvider
    /\ made[2].result.Region = AsConstructed.SigningRegion
    /\ made[2].result = made[1].result

----------------------------------------------------------------------------
(* C26: inside one interceptor invocation the signing-configuration        *)
(* factory is invoked once, before the signer's SignRequest; the caller's  *)
(* completion continuation is never invoked before the signer completes,   *)
(* is invoked exactly once for each signer completion, and is never        *)
(* invoked if the signer never completes; the interceptor itself returns   *)
(* without waiting for the signer's completion.                            *)

\* The positions in the history of the events of one kind of one invocation.
EventsOf(inv, ev) == {k \in 1..Len(events) : events[k].inv = inv /\ events[k].ev = ev}

C26_InterceptorOrdering ==
    \A inv \in 1..Len(invocations) :
        /\ Cardinality(EventsOf(inv, "CreateSigningConfigCb")) = 1
        /\ \A f \in EventsOf(inv, "CreateSigningConfigCb"), sr \in EventsOf(inv, "SignRequest") :
              f < sr
        \* the interceptor has returned, whether or not the signer has completed
        /\ Cardinality(EventsOf(inv, "return")) = 1
        /\ \A sr \in EventsOf(inv, "SignRequest"), rt \in EventsOf(inv, "return") : sr < rt
        /\ \A oc \in EventsOf(inv, "onComplete") :
              \E sc \in EventsOf(inv, "signingComplete") : sc < oc
        /\ Cardinality(EventsOf(inv, "onComplete"))
              = Cardinality(EventsOf(inv, "signingComplete"))
        /\ Cardinality(EventsOf(inv, "signingComplete"))
              = Cardinality({i \in SignOpsOf(inv) : has_value(signOps[i].completed)})

\* One invocation is through, the other has returned and its signer has not completed.
C26_Witness ==
    /\ Len(invocations) = 2
    /\ EventsOf(1, "return") # {} /\ EventsOf(2, "return") # {}
    /\ EventsOf(2, "signingComplete") # {} /\ Cardinality(EventsOf(2, "onComplete")) = 1
    /\ EventsOf(1, "signingComplete") = {} /\ EventsOf(1, "onComplete") = {}
    /\ ~has_value(signOps[1].completed)

----------------------------------------------------------------------------
(* C27: when the interceptor of one configuration is invoked several times *)
(* with different requests and completion continuations, and the signer's  *)
(* completions arrive in any order, each completion continuation is        *)
(* invoked only with the request and error code of the signing operation   *)
(* started by its own invocation, never with another invocation's result.  *)

C27_NoInterference ==
    \A k \in 1..Len(delivered) :
        LET own == delivered[k].onComplete.continuation
            op == signOps[delivered[k].op]
        IN  /\ own \in 1..Len(invocations)
            /\ op.inv = own
            /\ op.req = invocations[own].req
            /\ has_value(op.completed)
            /\ delivered[k].req = value(op.completed).req
            /\ delivered[k].errorCode = value(op.completed).errorCode
            /\ \A j \in 1..Len(signOps) :
                  signOps[j].inv # own => j # delivered[k].op

\* Two attempts with different requests; the second is completed first, with a
\* different outcome.
C27_Witness ==
    /\ Len(invocations) = 2 /\ Len(delivered) = 2
    /\ invocations[1].req # invocations[2].req
    /\ delivered[1].onComplete = invocations[2].onComplete
    /\ delivered[2].onComplete = invocations[1].onComplete
    /\ delivered[1].req.id = invocations[2].req.id
    /\ delivered[2].req.id = invocations[1].req.id
    /\ delivered[1].errorCode # delivered[2].errorCode

----------------------------------------------------------------------------
(* C28: within one Build call the ALPN protocol list is set at most once,  *)
(* and setting it replaces the previous list instead of appending to it:   *)
(* after Build the list has at most one element, also when                 *)
(* WithCustomAuthorizer or an earlier Build had set a list before.         *)

C28_AlpnListReplaced ==
    /\ Len(builder.m_contextOptions.alpnList) <= 1
    /\ call.op = "Build" =>
          /\ builder.m_contextOptions.alpnList
                \in {call.pre.m_contextOptions.alpnList, AlpnMqttCa, AlpnMqtt}
          /\ (call.pre.m_lastError # 0 \/ ~call.tlsAccepts)
                => builder.m_contextOptions.alpnList = call.pre.m_contextOptions.alpnList
          /\ ConfigValid(Built) =>
                /\ Built.m_context.alpnList = builder.m_contextOptions.alpnList
                /\ Len(Built.m_context.alpnList) <= 1

\* A successful Build on a builder whose list an earlier Build had set to the
\* direct-mTLS protocol, now asking for the custom-authorizer protocol.
C28_Witness ==
    /\ JustBuilt /\ ConfigValid(Built)
    /\ call.pre.m_contextOptions.alpnList = AlpnMqttCa
    /\ Built.m_context.alpnList = AlpnMqtt
    /\ builder.m_contextOptions.alpnList = AlpnMqtt

----------------------------------------------------------------------------
(* C29: the builder's error is never cleared: once last-error is non-zero  *)
(* (the default-constructed builder starts so), no fluent call and no      *)
(* Build makes it zero again, so every later Build returns an invalid      *)
(* configuration; and a Build that fails on its own checks (ALPN list      *)
(* rejected, TLS context not realized) leaves the builder's last-error as  *)
(* it was.                                                                 *)

C29_ErrorNeverCleared ==
    [][/\ builder.m_lastError # 0 =>
             /\ builder'.m_lastError # 0
             /\ (call'.op = "Build" /\ nOps' = nOps + 1) =>
                   /\ has_value(config')
                   /\ ~ConfigValid(value(config'))
                   /\ value(config').m_lastError # 0
       /\ (call'.op = "Build" /\ nOps' = nOps + 1) =>
             builder'.m_lastError = builder.m_lastError]_vars

\* Same, seen from the state after a call.
C29_ErrorStillSet ==
    /\ ctorError # 0 => builder.m_lastError # 0
    /\ (call.op # "constructor" /\ call.pre.m_lastError # 0)
          => builder.m_lastError # 0

\* A builder constructed without error that a fallible call put in error, a
\* password set afterwards, and the Build that follows.
C29_Witness ==
    /\ nOps = 3 /\ JustBuilt
    /\ ctorError = 0
    /\ call.pre.m_lastError # 0
    /\ call.pre.m_password = "pw"
    /\ builder.m_lastError = call.pre.m_lastError
    /\ ~ConfigValid(Built)

\* A Build that fails on its own checks.
C29_WitnessOwnFailure ==
    /\ JustBuilt /\ call.pre.m_lastError = 0 /\ ~ConfigValid(Built)
    /\ builder.m_lastError = 0

----------------------------------------------------------------------------
(* C30: two successful Build calls in a row on one builder, with no fluent *)
(* call in between, return configurations with the same endpoint, port,    *)
(* ALPN list, username, password, proxy options and interceptor presence;  *)
(* Build does not write the metrics suffix back into the builder's         *)
(* username, so the suffix appears exactly once in each result.            *)

\* The number of places at which key occurs in s.
CountOf(s, key) ==
    Cardinality({i \in 1..Len(s) : i + Len(key) - 1 <= Len(s)
                                   /\ SubSeq(s, i, i + Len(key) - 1) = key})

\* The step is a Build that follows a Build directly, both successful.
BuildAfterBuild ==
    /\ call.op = "Build" /\ has_value(config) /\ ConfigValid(value(config))
    /\ call'.op = "Build" /\ nOps' = nOps + 1
    /\ has_value(config') /\ ConfigValid(value(config'))

C30_BuildRepeatable ==
    [][BuildAfterBuild =>
          /\ value(config').m_endpoint = value(config).m_endpoint
          /\ value(config').m_port = value(config).m_port
          /\ value(config').m_context.alpnList = value(config).m_context.alpnList
          /\ value(config').m_username = value(config).m_username
          /\ value(config').m_password = value(config).m_password
          /\ value(config').m_proxyOptions = value(config).m_proxyOptions
          /\ has_value(value(config').m_webSocketInterceptor)
                = has_value(value(config).m_webSocketInterceptor)
          /\ builder'.m_username = builder.m_username
          /\ builder.m_username = call.pre.m_username
          /\ CountOf(value(config').m_username, SdkKey)
                = CountOf(builder.m_username, SdkKey)
                  + (IF builder.m_enableMetricsCollection THEN 1 ELSE 0)]_vars

\* The second of two Builds in a row, both successful, with metrics on: only a
\* Build leaves the direct-mTLS protocol in the builder's list.
C30_Witness ==
    /\ nOps = 2 /\ JustBuilt /\ ConfigValid(Built)
    /\ call.pre.m_contextOptions.alpnList = AlpnMqttCa
    /\ call.pre.m_enableMetricsCollection
    /\ CountOf(Built.m_username, SdkKey) = 1
    /\ builder.m_username = call.pre.m_username

====
